---- MODULE Spec2Model ----
(***************************************************************************)
(* Job scheduling and notification delivery engine of the trading bot.     *)
(*                                                                         *)
(* The parts of the program are modelled each with its own specification:  *)
(*   SpecAlerts     the price_alerts table, the user handlers that create  *)
(*                  and delete alerts, and check_price_alerts_job, the     *)
(*                  evaluator tick, stepped at its await points;           *)
(*   SpecStore      SpecAlerts plus DB.deactivate_price_alert, a JobStore  *)
(*                  operation that no handler calls;                       *)
(*   SpecJobs       the scheduled_tasks table, the live APScheduler        *)
(*                  schedule, on_startup and the admin add/remove handlers;*)
(*   SpecReconcile  setup_scheduler applied to arbitrary prior schedules.  *)
(*   SpecFanout     the users table and the three fan-outs: the admin      *)
(*                  broadcast, the daily calendar digest and the scheduled *)
(*                  VIP analysis, with each send's and provider's outcome; *)
(*   SpecAdmin      two admin add/remove handlers running as concurrent    *)
(*                  tasks, stepped at their await points;                  *)
(*   SpecOwners     the alert menus two users hold and the handlers behind *)
(*                  their buttons, with SQLite's reuse of deleted ids;     *)
(*   SpecCalendar   MyfxbookCalendarScraper applied to arbitrary pages of  *)
(*                  calendar rows, and the texts the daily digest job and  *)
(*                  the user's calendar handler make of its events;        *)
(*   SpecAlertsFair SpecAlerts with the steps of the tick taken in the end;*)
(*   SpecAlertFlow  the conversation that creates an alert, from the menu  *)
(*                  to the frequency button, with the texts a user types;  *)
(*   SpecTaskFlow   the add-task conversation of an admin, with the texts  *)
(*                  typed for the hour and the minute;                     *)
(*   SpecCredits    the analyze callbacks of one user as concurrent tasks, *)
(*                  stepped at their await points.                         *)
(* Prices and targets are floats in the program; the model uses integers,  *)
(* which order the same way under >= and <=.                               *)
(***************************************************************************)
EXTENDS Integers, Sequences, FiniteSets, Bags, TLC

VARIABLES
    \* ---- price_alerts table (src/app/db.py PriceAlert) ----
    alerts,                  \* set of rows
    next_uid,                \* number of rows ever inserted, plus one
    \* ---- check_price_alerts_job: position and locals ----
    pc,                      \* "idle" | "fetch" | "load" | "sweep" | "flush"
    active_assets,           \* result of DB.get_distinct_alert_assets
    asset_prices,            \* asset -> price, the fetched float prices only
    active_alerts,           \* result of DB.get_all_active_price_alerts
    idx,                     \* position of the for loop in active_alerts
    triggered_one_time_ids,  \* ids queued for the batched deactivation
    \* ---- what the tick did (its log lines and bot.send_message calls) ----
    evaluated,               \* uids whose `triggered` was computed, in order
    triggered,               \* uids whose `triggered` was True in this tick
    sent,                    \* notifications delivered in this tick
    send_failures,           \* uids whose send raised in this tick
    flush,                   \* "none" | "ok" | "failed": the batched update
    \* ---- history across ticks ----
    triggered_before,        \* uids that triggered in an earlier tick
    retired,                 \* delivered notifications of the alerts that an
                             \* earlier tick's batched update deactivated
    \* ---- scheduled_tasks table and the live schedule ----
    tasks,                   \* bag of ScheduledTask rows
    live,                    \* bag of live APScheduler jobs
    started,                 \* on_startup has run in this process
    reply,                   \* last answer of an admin task handler
    setup_calls,             \* the schedules setup_scheduler was called on, in
                             \* this process, oldest first
    \* ---- users table and the fan-out jobs ----
    users,                   \* set of User rows
    run,                     \* what the last broadcast or job run did
    \* ---- admin task handlers in flight ----
    ops,                     \* handler slot -> the add or remove it runs
    listed,                  \* job ids the task lists sent so far offer to remove
    \* ---- alert menus of the users ----
    keyboards,               \* callback buttons the bot has sent, per user
    fsm,                     \* user -> FSM state and data
    deletions,               \* the rows deleted so far and who deleted them
    analyses,                \* analyze callbacks in flight: handler slot ->
                             \* where it stands and the User row it read
    \* ---- economic calendar: one scrape and what is made of it ----
    calendar_rows,           \* the rows of the calendar page, in page order
    today,                   \* datetime.now(baghdad_tz).date()
    calpc,                   \* "idle" | "job_scraped" | "job_done" |
                             \* "handler_scraped" | "handler_done"
    page_response,           \* "none", or how the request for the page ended
    calendar_events,         \* what _scrape_calendar returned
    outbox                   \* the texts given to the transport, in order

alertVars == <<alerts, next_uid, pc, active_assets, asset_prices, active_alerts,
               idx, triggered_one_time_ids, evaluated, triggered, sent,
               send_failures, flush, triggered_before, retired>>
jobVars == <<tasks, live, started, reply, setup_calls>>
fanVars == <<users, run>>
adminVars == <<ops, listed>>
ownerVars == <<keyboards, fsm, deletions, analyses>>
calVars == <<calendar_rows, today, calpc, page_response, calendar_events, outbox>>
extVars == <<fanVars, adminVars, ownerVars, calVars>>
vars == <<alertVars, jobVars, extVars>>

(***************************************************************************)
(* Bounds and input sets                                                   *)
(***************************************************************************)
MaxAlerts == 2
MaxLive == 2
MaxRuns == 2

Users == {101}
Members == {101, 202, 303}
Owners == {101, 202}
Slots == {1, 2}
ADMIN_IDS == <<901, 902>>
Assets == {"XAUUSD", "EURUSD"}
Prices == {2299, 2300, 2301}
Targets == {2300}
Hours == {8, 9}
Minutes == {0, 30}
None == "None"
Now == "now"

ABOVE == "above"
BELOW == "below"
AlertType == {ABOVE, BELOW}

(***************************************************************************)
(* price_alerts: rows and DB operations                                    *)
(***************************************************************************)
\* A row. uid is not a column: it names the insertion that made the row, so
\* that a later row that gets the same primary key is a different alert.
PriceAlert(id, uid, user_id, asset, target_price, alert_type, is_one_time) ==
    [id |-> id, uid |-> uid, user_id |-> user_id, asset |-> asset,
     target_price |-> target_price, alert_type |-> alert_type,
     is_active |-> TRUE, triggered_at |-> None, is_one_time |-> is_one_time]

MaxOf(S) == CHOOSE m \in S : \A x \in S : x <= m

\* INTEGER PRIMARY KEY without the AUTOINCREMENT keyword: SQLite gives a new
\* row one more than the largest id in the table, so the id of a deleted
\* last row is handed out again.
NextRowId(rows) == IF rows = {} THEN 1 ELSE MaxOf({r.id : r \in rows}) + 1

add_price_alert(rows, uid, user_id, asset, target_price, alert_type, is_one_time) ==
    rows \cup {PriceAlert(NextRowId(rows), uid, user_id, asset, target_price,
                          alert_type, is_one_time)}

delete_price_alert(rows, alert_id) == {r \in rows : r.id # alert_id}

\* values(is_active=not is_active, ...)
ToggledValues(r) == [r EXCEPT !.is_active = ~r.is_active, !.triggered_at = Now]

DeactivatedValues(r) == [r EXCEPT !.is_active = FALSE, !.triggered_at = Now]

deactivate_price_alert(rows, alert_id) ==
    {IF r.id = alert_id THEN DeactivatedValues(r) ELSE r : r \in rows}

get_distinct_alert_assets(rows) == {r.asset : r \in {x \in rows : x.is_active}}

\* The rows of S as a sequence in primary-key order.
RECURSIVE ById(_)
ById(S) ==
    IF S = {} THEN <<>>
    ELSE LET first == CHOOSE r \in S : \A x \in S : r.id <= x.id
         IN <<first>> \o ById(S \ {first})

\* select(PriceAlert) without the is_active filter
get_all_price_alerts_unfiltered(rows) == ById(rows)

get_all_active_price_alerts(rows) == ById({r \in rows : r.is_active})

(***************************************************************************)
(* check_price_alerts_job (src/app/scheduler.py), one action per stretch   *)
(* between await points                                                    *)
(***************************************************************************)
\* asset_prices.get(asset) is not None
HasPrice(prices, asset) == asset \in DOMAIN prices

\* the comparisons written strict
IsTriggeredStrict(alert, current_price) ==
    \/ (alert.alert_type = ABOVE /\ current_price > alert.target_price)
    \/ (alert.alert_type = BELOW /\ current_price < alert.target_price)

IsTriggered(alert, current_price) ==
    \/ (alert.alert_type = ABOVE /\ current_price >= alert.target_price)
    \/ (alert.alert_type = BELOW /\ current_price <= alert.target_price)

\* bot.send_message(chat_id=alert.id, ...)
NotificationToAlertId(alert, current_price) ==
    [chat_id |-> alert.id, uid |-> alert.uid, price |-> current_price]

\* bot.send_message(chat_id=alert.user_id, ...) that returned
Notification(alert, current_price) ==
    [chat_id |-> alert.user_id, uid |-> alert.uid, price |-> current_price]

\* triggered_one_time_ids.append(alert.id) without the is_one_time test
QueueAlways(ids, alert) == Append(ids, alert.id)

\* if alert.is_one_time: triggered_one_time_ids.append(alert.id)
QueueOneTime(ids, alert) == IF alert.is_one_time THEN Append(ids, alert.id) ELSE ids

\* the UPDATE executed and never committed
BatchDeactivateUncommitted(rows, ids) == rows

\* update(PriceAlert).where(PriceAlert.id.in_(ids)).values(is_active=False, ...)
BatchDeactivate(rows, ids) ==
    {IF r.id \in ids THEN DeactivatedValues(r) ELSE r : r \in rows}

\* the UPDATE of the first of the ids kept although the write raised
BatchDeactivateFirstKept(rows, ids) ==
    {IF r.id = (CHOOSE m \in ids : \A x \in ids : m <= x)
     THEN DeactivatedValues(r) ELSE r : r \in rows}

\* The UPDATE or its commit raises: the session block is left without a
\* commit and the transaction of the one statement is dropped.
BatchDeactivateRolledBack(rows, ids) == rows

SeqToSet(s) == {s[i] : i \in DOMAIN s}

\* The delivered notifications of this tick whose alert was queued for the
\* batched deactivation.
QueuedNotifications ==
    {n \in SeqToSet(sent) :
        \E a \in SeqToSet(active_alerts) :
            a.uid = n.uid /\ a.id \in SeqToSet(triggered_one_time_ids)}

\* The call returns: its locals and its trace are gone (only the outcome of the
\* batched update stays, until the next call), and what it did joins the
\* history.
Return(wrote) ==
    /\ pc' = "idle"
    /\ evaluated' = <<>>
    /\ triggered' = {}
    /\ sent' = <<>>
    /\ send_failures' = {}
    /\ active_assets' = {}
    /\ asset_prices' = <<>>
    /\ active_alerts' = <<>>
    /\ idx' = 1
    /\ triggered_one_time_ids' = <<>>
    /\ triggered_before' = triggered_before \cup triggered
    /\ retired' = retired \cup (IF wrote THEN QueuedNotifications ELSE {})

\* A fresh call.
TickStart ==
    /\ pc = "idle"
    /\ active_assets' = get_distinct_alert_assets(alerts)
    /\ pc' = IF active_assets' = {} THEN "idle" ELSE "fetch"
    /\ flush' = "none"
    /\ UNCHANGED <<alerts, next_uid, asset_prices, active_alerts, idx,
                   triggered_one_time_ids, evaluated, triggered, sent,
                   send_failures, triggered_before, retired, jobVars, extVars>>

\* a fetch that never answers is waited for without end: gather never returns
TickFetchHung ==
    /\ pc = "fetch"
    /\ \E priced \in SUBSET active_assets :
          \E results \in [priced -> Prices] :
             IF priced # active_assets
             THEN /\ pc' = "hung"
                  /\ UNCHANGED <<active_assets, asset_prices, active_alerts, idx,
                                 triggered_one_time_ids, evaluated, triggered,
                                 sent, send_failures, triggered_before, retired>>
             ELSE /\ asset_prices' = results
                  /\ pc' = "load"
                  /\ UNCHANGED <<active_assets, active_alerts, idx,
                                 triggered_one_time_ids, evaluated, triggered,
                                 sent, send_failures, triggered_before, retired>>
    /\ UNCHANGED <<alerts, next_uid, flush, jobVars, extVars>>

\* asyncio.gather over fetch_current_price: each asset's fetch returns a
\* float, or None / an exception object, which the isinstance filter drops.
\* A request that gets no answer ends by the timeout of its own session and
\* is one of the fetches that return None (except Exception, line 172).
TickFetch ==
    /\ pc = "fetch"
    /\ \E priced \in SUBSET active_assets :
          \E results \in [priced -> Prices] :
             IF priced = {}
             THEN Return(FALSE)
             ELSE /\ asset_prices' = results
                  /\ pc' = "load"
                  /\ UNCHANGED <<active_assets, active_alerts, idx,
                                 triggered_one_time_ids, evaluated, triggered,
                                 sent, send_failures, triggered_before, retired>>
    /\ UNCHANGED <<alerts, next_uid, flush, jobVars, extVars>>

TickLoad ==
    /\ pc = "load"
    /\ active_alerts' = get_all_active_price_alerts(alerts)
    /\ idx' = 1
    /\ pc' = "sweep"
    /\ UNCHANGED <<alerts, next_uid, active_assets, asset_prices,
                   triggered_one_time_ids, evaluated, triggered, sent,
                   send_failures, flush, triggered_before, retired, jobVars, extVars>>

\* `triggered` of the loop body, for the alerts that are not skipped
Fires(alert) ==
    /\ HasPrice(asset_prices, alert.asset)
    /\ IsTriggered(alert, asset_prices[alert.asset])

\* the loop left (break) at the first alert whose asset has no price
RECURSIVE NextFiringUntilUnpriced(_)
NextFiringUntilUnpriced(from) ==
    IF from > Len(active_alerts) THEN from
    ELSE IF ~HasPrice(asset_prices, active_alerts[from].asset)
    THEN Len(active_alerts) + 1
    ELSE IF Fires(active_alerts[from]) THEN from
    ELSE NextFiringUntilUnpriced(from + 1)

\* the loop left by the exception of a send that raised
RECURSIVE NextFiringUnlessFailed(_)
NextFiringUnlessFailed(from) ==
    IF from > Len(active_alerts) THEN from
    ELSE IF send_failures # {} THEN Len(active_alerts) + 1
    ELSE IF Fires(active_alerts[from]) THEN from
    ELSE NextFiringUnlessFailed(from + 1)

\* The loop runs without suspending up to the next alert that fires: the
\* position of that alert, or Len + 1 when no alert from `from` on fires.
RECURSIVE NextFiring(_)
NextFiring(from) ==
    IF from > Len(active_alerts) THEN from
    ELSE IF Fires(active_alerts[from]) THEN from
    ELSE NextFiring(from + 1)

\* uids of the alerts at positions from..to whose `triggered` was computed
RECURSIVE EvaluatedIn(_, _)
EvaluatedIn(from, to) ==
    IF from > to \/ from > Len(active_alerts) THEN <<>>
    ELSE (IF HasPrice(asset_prices, active_alerts[from].asset)
          THEN <<active_alerts[from].uid>> ELSE <<>>) \o EvaluatedIn(from + 1, to)

\* `for alert in active_alerts`, from one await of bot.send_message to the
\* next: the alerts that do not fire are passed, the next one that fires is
\* notified, and the send returns or raises.
TickSweep ==
    /\ pc = "sweep"
    /\ LET j == NextFiring(idx)
       IN /\ evaluated' = evaluated \o EvaluatedIn(idx, j)
          /\ idx' = j + 1
          /\ IF j > Len(active_alerts)
             THEN /\ pc' = "flush"
                  /\ UNCHANGED <<triggered, sent, send_failures,
                                 triggered_one_time_ids>>
             ELSE LET alert == active_alerts[j]
                      current_price == asset_prices[alert.asset]
                  IN /\ pc' = "sweep"
                     /\ triggered' = triggered \cup {alert.uid}
                     /\ \/ /\ sent' = Append(sent, Notification(alert, current_price))
                           /\ triggered_one_time_ids' =
                                  QueueOneTime(triggered_one_time_ids, alert)
                           /\ UNCHANGED send_failures
                        \/ /\ send_failures' = send_failures \cup {alert.uid}
                           /\ UNCHANGED <<sent, triggered_one_time_ids>>
    /\ UNCHANGED <<alerts, next_uid, active_assets, asset_prices, active_alerts,
                   flush, triggered_before, retired, jobVars, extVars>>

\* if triggered_one_time_ids: one UPDATE and commit, which may raise.
TickFlush ==
    /\ pc = "flush"
    /\ IF triggered_one_time_ids = <<>>
       THEN /\ Return(FALSE)
            /\ UNCHANGED <<alerts, flush>>
       ELSE \/ /\ alerts' = BatchDeactivate(alerts, SeqToSet(triggered_one_time_ids))
               /\ flush' = "ok"
               /\ Return(TRUE)
            \/ /\ alerts' = BatchDeactivateRolledBack(alerts,
                                                       SeqToSet(triggered_one_time_ids))
               /\ flush' = "failed"
               /\ Return(FALSE)
    /\ UNCHANGED <<next_uid, jobVars, extVars>>

(***************************************************************************)
(* User handlers on alerts (src/app/handlers/user.py)                      *)
(***************************************************************************)
tickVars == <<pc, active_assets, asset_prices, active_alerts, idx,
              triggered_one_time_ids, evaluated, triggered, sent, send_failures,
              flush, triggered_before, retired>>

\* set_alert_frequency_handler: the last step of the creation conversation.
SetAlertFrequencyHandler ==
    /\ next_uid <= MaxAlerts
    /\ \E user_id \in Users, asset \in Assets, target_price \in Targets,
          alert_type \in AlertType, is_one_time \in BOOLEAN :
          alerts' = add_price_alert(alerts, next_uid, user_id, asset, target_price,
                                    alert_type, is_one_time)
    /\ next_uid' = next_uid + 1
    /\ UNCHANGED <<tickVars, jobVars, extVars>>

\* confirm_delete_alert_handler then delete_alert_handler: the id comes from
\* the callback data.
DeleteAlertHandler ==
    /\ \E alert_id \in {r.id : r \in alerts} :
          alerts' = delete_price_alert(alerts, alert_id)
    /\ UNCHANGED <<next_uid, tickVars, jobVars, extVars>>

\* DB.deactivate_price_alert: defined by the JobStore, called by no handler.
DeactivatePriceAlert ==
    /\ \E alert_id \in {r.id : r \in alerts} :
          alerts' = deactivate_price_alert(alerts, alert_id)
    /\ UNCHANGED <<next_uid, tickVars, jobVars, extVars>>

(***************************************************************************)
(* scheduled_tasks rows, the live schedule, setup_scheduler and the admin  *)
(* task handlers                                                           *)
(***************************************************************************)
\* the hour and the minute joined without a separator
JobIdUnseparated(asset, hour, minute) ==
    "task_" \o asset \o "_" \o ToString(hour) \o ToString(minute)

\* job_id = f"task_{asset}_{hour}_{minute}"
JobId(asset, hour, minute) ==
    "task_" \o asset \o "_" \o ToString(hour) \o "_" \o ToString(minute)

\* timezone has the column default: DB.add_task does not set it.
ScheduledTask(job_id, asset, hour, minute) ==
    [job_id |-> job_id, asset |-> asset, hour |-> hour, minute |-> minute,
     timezone |-> "Asia/Baghdad"]

\* Number of elements of bag B that satisfy P.
CountWhere(B, P(_)) == BagCardinality([x \in {y \in DOMAIN B : P(y)} |-> B[x]])

WithoutWhere(B, P(_)) == [x \in {y \in DOMAIN B : ~P(y)} |-> B[x]]

\* job_id is declared unique: a second row with the same job_id is refused
\* (IntegrityError) and the table is unchanged.
add_task_ok(rows, job_id) == ~\E r \in DOMAIN rows : r.job_id = job_id

add_task(rows, job_id, asset, hour, minute) ==
    rows (+) SetToBag({ScheduledTask(job_id, asset, hour, minute)})

\* a delete that is never committed
delete_task_uncommitted(rows, job_id) == rows

delete_task(rows, job_id) == LET Same(r) == r.job_id = job_id
                             IN WithoutWhere(rows, Same)

get_all_tasks(rows) == DOMAIN rows

\* A live job. A cron job without a timezone argument runs in the
\* scheduler's own timezone, AsyncIOScheduler() leaving it the host's.
Job(id, func, trigger, hour, minute, tz, asset) ==
    [id |-> id, func |-> func, trigger |-> trigger, hour |-> hour,
     minute |-> minute, timezone |-> tz, asset |-> asset]

AnalysisJob(job_id, asset, hour, minute) ==
    Job(job_id, "scheduled_analysis_job", "cron", hour, minute, "scheduler", asset)

PriceAlertChecker ==
    Job("price_alert_checker", "check_price_alerts_job", "interval", 0, 1,
        "scheduler", None)

DailyCalendarSender ==
    Job("daily_calendar_sender", "send_daily_economic_calendar_job", "cron", 2, 0,
        "Asia/Baghdad", None)

\* a lookup that finds nothing
get_job_never(sched, job_id) == FALSE

get_job(sched, job_id) == \E j \in DOMAIN sched : j.id = job_id

remove_job(sched, job_id) == LET Same(j) == j.id = job_id
                             IN WithoutWhere(sched, Same)

\* the job added beside the one that holds its id
add_job_beside(sched, job) == sched (+) SetToBag({job})

\* scheduler.add_job(..., id=job.id, replace_existing=True)
add_job(sched, job) == remove_job(sched, job.id) (+) SetToBag({job})

\* for task in tasks: scheduler.add_job(scheduled_analysis_job, 'cron', ...)
RECURSIVE AddAnalysisJobs(_, _)

AddAnalysisJobs(sched, rows) ==
    IF rows = {} THEN sched
    ELSE LET task == CHOOSE r \in rows : TRUE
         IN AddAnalysisJobs(
                add_job(sched, AnalysisJob(task.job_id, task.asset, task.hour,
                                           task.minute)),
                rows \ {task})

\* the daily calendar job left out
AddPriceCheckerOnly(sched) == add_job(sched, PriceAlertChecker)

AddBuiltinJobs(sched) == add_job(add_job(sched, PriceAlertChecker), DailyCalendarSender)

\* for task in tasks[1:]
setup_scheduler_but_first(sched, rows) ==
    LET all == get_all_tasks(rows)
        rest == IF all = {} THEN {} ELSE all \ {CHOOSE r \in all : TRUE}
    IN AddBuiltinJobs(AddAnalysisJobs(sched, rest))

setup_scheduler(sched, rows) == AddBuiltinJobs(AddAnalysisJobs(sched, get_all_tasks(rows)))

Answer(op, job_id, text) == [op |-> op, job_id |-> job_id, text |-> text]

\* setup_scheduler(bot, scheduler) as on_startup calls it, on whatever the
\* scheduler holds.
SetupSchedulerCall ==
    /\ Len(setup_calls) < MaxRuns
    /\ live' = setup_scheduler(live, tasks)
    /\ started' = TRUE
    /\ setup_calls' = Append(setup_calls, live)
    /\ UNCHANGED <<tasks, reply, alertVars, extVars>>

OnStartup ==
    /\ ~started
    /\ SetupSchedulerCall

\* The process stops and starts again: the scheduler of the new process is
\* empty, the table is what it was.
Restart ==
    /\ started
    /\ live' = EmptyBag
    /\ started' = FALSE
    /\ reply' = Answer("none", None, None)
    /\ setup_calls' = <<>>
    /\ UNCHANGED <<tasks, alertVars, extVars>>

\* add_task_minute_handler with a valid minute, run to its end.
AddTaskMinuteHandler ==
    /\ started
    /\ \E asset \in Assets, hour \in Hours, minute \in Minutes :
          LET job_id == JobId(asset, hour, minute)
          IN IF get_job(live, job_id)
             THEN /\ reply' = Answer("add", job_id, "exists")
                  /\ UNCHANGED <<tasks, live>>
             ELSE IF ~add_task_ok(tasks, job_id)
             THEN /\ reply' = Answer("add", job_id, "error")
                  /\ UNCHANGED <<tasks, live>>
             ELSE /\ tasks' = add_task(tasks, job_id, asset, hour, minute)
                  /\ live' = add_job(live, AnalysisJob(job_id, asset, hour, minute))
                  /\ reply' = Answer("add", job_id, "scheduled")
    /\ UNCHANGED <<started, setup_calls, alertVars, extVars>>

\* remove_task_handler, run to its end; the job id comes from the callback
\* data of a task list sent earlier.
RemoveTaskHandler ==
    /\ started
    /\ \E asset \in Assets, hour \in Hours, minute \in Minutes :
          LET job_id == JobId(asset, hour, minute)
          IN /\ live' = IF get_job(live, job_id) THEN remove_job(live, job_id) ELSE live
             /\ tasks' = delete_task(tasks, job_id)
             /\ reply' = Answer("remove", job_id, "removed")
    /\ UNCHANGED <<started, setup_calls, alertVars, extVars>>

(***************************************************************************)
(* users table, the admin broadcast and the two fan-out jobs               *)
(***************************************************************************)
User(id, is_vip) == [id |-> id, is_vip |-> is_vip]

\* DB.get_or_update_user: a first contact inserts the row, is_vip False.
get_or_update_user(rows, user_id) ==
    IF \E u \in rows : u.id = user_id THEN rows ELSE rows \cup {User(user_id, FALSE)}

\* DB.set_vip_status
set_vip_status(rows, user_id, status) ==
    {IF u.id = user_id THEN User(u.id, status) ELSE u : u \in rows}

get_all_user_ids(rows) == {u.id : u \in rows}

get_vip_users(rows) == {u.id : u \in {v \in rows : v.is_vip}}

get_all_active_users(rows) == {u.id : u \in rows}

\* What one send did: "ok", or "exc" when bot.send_message raised.
Fates(recipients) == [recipients -> {"ok", "exc"}]
AdminFates == [{ADMIN_IDS[i] : i \in DOMAIN ADMIN_IDS} -> {"ok", "exc"}]

\* a gather that stops at the first recipient whose send raises
gather_fail_fast(recipients, fate) ==
    IF \E r \in recipients : fate[r] = "exc"
    THEN [r \in {x \in recipients : \A y \in recipients : y <= x => fate[y] = "ok"}
            |-> fate[r]]
    ELSE [r \in recipients |-> fate[r]]

\* asyncio.gather(*tasks, return_exceptions=True): one result per recipient,
\* the exception itself where the send raised.
gather(recipients, fate) == [r \in recipients |-> fate[r]]

\* the results that are not exceptions
CountSent(results) == Cardinality({r \in DOMAIN results : results[r] # "exc"})

CountFailed(results) == Cardinality({r \in DOMAIN results : results[r] = "exc"})

Delivered(results) == {r \in DOMAIN results : results[r] = "ok"}

\* What a loop over ADMIN_IDS did: the admins a send was attempted to, the
\* notices that arrived, and whether a send raised out of the loop.
AdminResult(attempted, notices, raised) ==
    [attempted |-> attempted, notices |-> notices, raised |-> raised]
NoAdmin == AdminResult(<<>>, <<>>, FALSE)

\* The record of one run: the recipients of its fan-out, the sends attempted
\* and delivered, what the run tells of the fan-out (report), and what it
\* sent to the admins.
Run(job, cause, message, recipients, results, report, admin, calls) ==
    [job |-> job, cause |-> cause, message |-> message, recipients |-> recipients,
     attempted |-> DOMAIN results, delivered |-> Delivered(results),
     report |-> report, notified |-> admin.attempted, notices |-> admin.notices,
     calls |-> calls, outcome |-> IF admin.raised THEN "raised" ELSE "returned"]

\* A run that a failed database read ended before any send.
RunRaised(job, calls) ==
    [Run(job, "db_failed", [kind |-> "none", asset |-> "None", body |-> "None"],
         {}, [r \in {} |-> "ok"], [kind |-> "none"], NoAdmin, calls)
     EXCEPT !.outcome = "raised"]

NoResults == [r \in {} |-> "ok"]
NoReport == [kind |-> "none"]
NoCalls == [candles |-> 0, ai |-> 0]
NoRun ==
    [Run("none", "none", [kind |-> "none", asset |-> "None", body |-> "None"],
         {}, NoResults, NoReport, NoAdmin, NoCalls)
     EXCEPT !.outcome = "none"]

Message(kind, asset, body) == [kind |-> kind, asset |-> asset, body |-> body]
NoMessage == Message("none", None, None)

Notice(admin_id, text, count) == [to |-> admin_id, text |-> text, count |-> count]

\* for admin_id in ADMIN_IDS: try: await bot.send_message(...) except: log
RECURSIVE NotifyAdminsGuarded(_, _, _, _)

NotifyAdminsGuarded(i, admin_fate, text, count) ==
    IF i > Len(ADMIN_IDS) THEN NoAdmin
    ELSE LET rest == NotifyAdminsGuarded(i + 1, admin_fate, text, count)
             here == IF admin_fate[ADMIN_IDS[i]] = "ok"
                     THEN <<Notice(ADMIN_IDS[i], text, count)>> ELSE <<>>
         IN AdminResult(<<ADMIN_IDS[i]>> \o rest.attempted, here \o rest.notices,
                        FALSE)

\* for admin_id in ADMIN_IDS: await bot.send_message(...): the first send
\* that raises ends the loop and the job.
RECURSIVE NotifyAdmins(_, _, _, _)

NotifyAdmins(i, admin_fate, text, count) ==
    IF i > Len(ADMIN_IDS) THEN NoAdmin
    ELSE IF admin_fate[ADMIN_IDS[i]] = "exc"
    THEN AdminResult(<<ADMIN_IDS[i]>>, <<>>, TRUE)
    ELSE LET rest == NotifyAdmins(i + 1, admin_fate, text, count)
         IN AdminResult(<<ADMIN_IDS[i]>> \o rest.attempted,
                        <<Notice(ADMIN_IDS[i], text, count)>> \o rest.notices,
                        rest.raised)

\* start_handler: /start registers the sender.
StartHandler ==
    /\ \E user_id \in Members : users' = get_or_update_user(users, user_id)
    /\ UNCHANGED <<run, alertVars, calVars, jobVars, adminVars, ownerVars>>

\* manage_user_actions_handler, action toggle_vip
ToggleVipHandler ==
    /\ \E u \in users : users' = set_vip_status(users, u.id, ~u.is_vip)
    /\ UNCHANGED <<run, alertVars, calVars, jobVars, adminVars, ownerVars>>

\* send_broadcast_confirm_handler
SendBroadcastConfirmHandler ==
    /\ \/ run' = RunRaised("broadcast", NoCalls)
       \/ LET user_ids == get_all_user_ids(users)
          IN \E fate \in Fates(user_ids) :
                LET results == gather(user_ids, fate)
                    sent_n == CountSent(results)
                    failed_n == CountFailed(results)
                IN run' = Run("broadcast", "none", Message("broadcast", None, None),
                              user_ids, results,
                              [kind |-> "counts", sent |-> sent_n,
                               failed |-> failed_n],
                              NoAdmin, NoCalls)
    /\ UNCHANGED <<users, alertVars, calVars, jobVars, adminVars, ownerVars>>

\* MyfxbookCalendarScraper._scrape_calendar: a network or any other error
\* is logged and the empty list returned.
scrape_calendar(page) == IF page = "events" THEN "events" ELSE "[]"

\* send_daily_economic_calendar_job
SendDailyEconomicCalendarJob ==
    /\ \E page \in {"events", "no_events", "client_error", "error"} :
          LET cause == IF page \in {"client_error", "error"} THEN "scrape_failed"
                       ELSE "none"
              events == scrape_calendar(page)
              message == IF events = "[]" THEN Message("digest", None, "no_events")
                         ELSE Message("digest", None, "events")
              all_users == get_all_active_users(users)
          IN \/ run' = RunRaised("digest", NoCalls)
             \/ /\ all_users = {}
                /\ run' = Run("digest", cause, NoMessage, {}, NoResults, NoReport,
                              NoAdmin, NoCalls)
             \/ /\ all_users # {}
                /\ \E fate \in Fates(all_users) :
                      LET results == gather(all_users, fate)
                          sent_count == CountSent(results)
                          report == [kind |-> "sent_of_total", sent |-> sent_count,
                                     total |-> Cardinality(all_users)]
                      IN IF sent_count > 0
                         THEN \E admin_fate \in AdminFates :
                                 run' = Run("digest", cause, message, all_users,
                                            results, report,
                                            NotifyAdmins(1, admin_fate, "digest_sent",
                                                         sent_count),
                                            NoCalls)
                         ELSE run' = Run("digest", cause, message, all_users, results,
                                         report, NoAdmin, NoCalls)
    /\ UNCHANGED <<users, alertVars, calVars, jobVars, adminVars, ownerVars>>

InitAlerts ==
    /\ alerts = {}
    /\ next_uid = 1
    /\ pc = "idle"
    /\ active_assets = {}
    /\ asset_prices = <<>>
    /\ active_alerts = <<>>
    /\ idx = 1
    /\ triggered_one_time_ids = <<>>
    /\ evaluated = <<>>
    /\ triggered = {}
    /\ sent = <<>>
    /\ send_failures = {}
    /\ flush = "none"
    /\ triggered_before = {}
    /\ retired = {}

InitJobsIdle ==
    /\ tasks = EmptyBag
    /\ live = EmptyBag
    /\ started = FALSE
    /\ reply = Answer("none", None, None)
    /\ setup_calls = <<>>

\* A handler slot: what it runs, on which task, and where it stands.
Op(op, job_id, asset, hour, minute, at, result) ==
    [op |-> op, job_id |-> job_id, asset |-> asset, hour |-> hour,
     minute |-> minute, pc |-> at, result |-> result]

Idle == Op("none", None, None, 0, 0, "done", "none")

\* A handler slot that runs no analyze callback.
NoAnalysis == [pc |-> "idle", user |-> None]

\* FSM state and data of a user outside any conversation.
NoState ==
    [state |-> None, alert_to_delete |-> 0, alert_asset |-> None,
     target_price |-> None, alert_type |-> None, asset |-> None, hour |-> None]

InitHandlers ==
    /\ run = NoRun
    /\ ops = [s \in Slots |-> Idle]
    /\ listed = {}
    /\ keyboards = {}
    /\ fsm = [u \in Owners |-> NoState]
    /\ deletions = {}
    /\ analyses = [s \in Slots |-> NoAnalysis]

\* No calendar page has been asked for.
InitCalendarIdle ==
    /\ calendar_rows = <<>>
    /\ today = <<2026, 1, 5>>
    /\ calpc = "idle"
    /\ page_response = "none"
    /\ calendar_events = <<>>
    /\ outbox = <<>>

\* No user.
InitExt == users = {} /\ InitHandlers /\ InitCalendarIdle

\* The state after construction: no alert, no task, nothing scheduled.
Init == InitAlerts /\ InitJobsIdle /\ InitExt

\* The result of a call: a value, or an exception raised to the caller.
Returned(value) == [raised |-> FALSE, value |-> value]
Raised == [raised |-> TRUE, value |-> None]

CandleResponses == {"candles", "client_error", "json_error", "no_data", "error"}
AiResponses == {"text", "client_error", "error"}

\* fetch_and_prepare_candles: aiohttp.ClientError, a JSON error and a reply
\* without data return {}; any other exception leaves the function.
fetch_and_prepare_candles(response) ==
    IF response = "candles" THEN Returned("candles")
    ELSE IF response \in {"client_error", "json_error", "no_data"} THEN Returned("{}")
    ELSE Raised

\* GeminiModel.send_prompt: every failure is raised again as Exception.
send_prompt(ai) == IF ai = "text" THEN Returned("recommendation") ELSE Raised

\* GeminiModel.analyze_asset
analyze_asset(candles, ai) ==
    IF candles = "{}" THEN Returned("No candle data available for analysis.")
    ELSE send_prompt(ai)

\* The calls one firing makes to the price API and to the model.
Calls(candles, recommendation_asked) ==
    [candles |-> 1,
     ai |-> IF recommendation_asked /\ ~candles.raised /\ candles.value # "{}"
            THEN 1 ELSE 0]

\* scheduled_analysis_job(asset, bot)
ScheduledAnalysisJob ==
    /\ \/ run' = Run("analysis", "disabled", NoMessage, {}, NoResults, NoReport,
                     NoAdmin, NoCalls)
       \/ \E response \in CandleResponses, ai \in AiResponses, db_ok \in BOOLEAN :
             LET candles == fetch_and_prepare_candles(response)
                 recommendation == IF candles.raised THEN Raised
                                   ELSE analyze_asset(candles.value, ai)
                 cause == IF response # "candles" THEN "candles_failed"
                          ELSE IF ai # "text" THEN "ai_failed"
                          ELSE IF ~db_ok THEN "db_failed"
                          ELSE "none"
                 vip_users == get_vip_users(users)
             IN IF candles.raised \/ recommendation.raised \/ ~db_ok
                THEN \E admin_fate \in AdminFates :
                        run' = Run("analysis", cause, NoMessage, {}, NoResults,
                                   NoReport,
                                   NotifyAdminsGuarded(1, admin_fate,
                                                       "analysis_failed", 0),
                                   Calls(candles, TRUE))
                ELSE IF vip_users = {}
                THEN run' = Run("analysis", cause, NoMessage, {}, NoResults, NoReport,
                                NoAdmin, Calls(candles, TRUE))
                ELSE \E asset \in Assets, fate \in Fates(vip_users) :
                        LET results == gather(vip_users, fate)
                        IN run' = Run("analysis", cause,
                                      Message("analysis", asset, recommendation.value),
                                      vip_users, results,
                                      [kind |-> "warnings",
                                       total |-> Cardinality(vip_users),
                                       warned |-> {r \in DOMAIN results :
                                                      results[r] = "exc"}],
                                      NoAdmin, Calls(candles, TRUE))
    /\ UNCHANGED <<users, alertVars, calVars, jobVars, adminVars, ownerVars>>

(***************************************************************************)
(* The admin task handlers stepped at their await points: aiogram handles  *)
(* each update in a task of its own, so two handlers interleave wherever   *)
(* one of them awaits.                                                     *)
(***************************************************************************)
\* The (asset, hour, minute) the admins type in this specification; the
\* asset is any text, upper-cased.
AdminTriples ==
    {<<"XAUUSD", 8, 30>>, <<"XAUUSD", 1, 12>>, <<"XAUUSD", 11, 2>>}

\* add_task_minute_handler up to its first suspension: the get_job guard,
\* then the call of DB.add_task.
AddTaskBegin(s) ==
    /\ started
    /\ ops[s].pc = "done"
    /\ \E t \in AdminTriples :
          LET job_id == JobId(t[1], t[2], t[3])
          IN IF get_job(live, job_id)
             THEN ops' = [ops EXCEPT ![s] =
                             Op("add", job_id, t[1], t[2], t[3], "done", "exists")]
             ELSE ops' = [ops EXCEPT ![s] =
                             Op("add", job_id, t[1], t[2], t[3], "add_task", "none")]
    /\ UNCHANGED <<jobVars, alertVars, calVars, fanVars, ownerVars, listed>>

\* DB.add_task commits, or the unique job_id refuses the row and the
\* IntegrityError ends the handler.
AddTaskWrite(s) ==
    /\ ops[s].pc = "add_task"
    /\ IF add_task_ok(tasks, ops[s].job_id)
       THEN /\ tasks' = add_task(tasks, ops[s].job_id, ops[s].asset, ops[s].hour,
                                 ops[s].minute)
            /\ ops' = [ops EXCEPT ![s].pc = "add_job"]
       ELSE /\ ops' = [ops EXCEPT ![s].pc = "done", ![s].result = "error"]
            /\ UNCHANGED tasks
    /\ UNCHANGED <<live, started, reply, setup_calls, alertVars, calVars, fanVars, ownerVars, listed>>

\* The handler resumes: scheduler.add_job, state.clear and the answer.
AddTaskSchedule(s) ==
    /\ ops[s].pc = "add_job"
    /\ live' = add_job(live, AnalysisJob(ops[s].job_id, ops[s].asset, ops[s].hour,
                                         ops[s].minute))
    /\ reply' = Answer("add", ops[s].job_id, "scheduled")
    /\ ops' = [ops EXCEPT ![s].pc = "done", ![s].result = "scheduled"]
    /\ UNCHANGED <<tasks, started, setup_calls, alertVars, calVars, fanVars, ownerVars, listed>>

\* list_tasks_prompt_handler: one remove button per row.
ListTasksPromptHandler ==
    /\ started
    /\ tasks # EmptyBag
    /\ listed' = listed \cup {r.job_id : r \in get_all_tasks(tasks)}
    /\ UNCHANGED <<ops, jobVars, alertVars, calVars, fanVars, ownerVars>>

\* remove_task_handler up to its first suspension: get_job and remove_job,
\* then the call of DB.delete_task. The job id is the callback data of a
\* button of a task list.
RemoveTaskBegin(s) ==
    /\ started
    /\ ops[s].pc = "done"
    /\ \E job_id \in listed :
          /\ live' = IF get_job(live, job_id) THEN remove_job(live, job_id)
                     ELSE live
          /\ ops' = [ops EXCEPT ![s] =
                        Op("remove", job_id, None, 0, 0, "delete_task", "none")]
    /\ UNCHANGED <<tasks, started, reply, setup_calls, alertVars, calVars, fanVars, ownerVars,
                   listed>>

\* DB.delete_task commits.
RemoveTaskWrite(s) ==
    /\ ops[s].pc = "delete_task"
    /\ tasks' = delete_task(tasks, ops[s].job_id)
    /\ ops' = [ops EXCEPT ![s].pc = "answer"]
    /\ UNCHANGED <<live, started, reply, setup_calls, alertVars, calVars, fanVars, ownerVars, listed>>

\* The handler resumes, answers "Task ... removed successfully." and lists
\* the tasks that are left.
RemoveTaskAnswer(s) ==
    /\ ops[s].pc = "answer"
    /\ reply' = Answer("remove", ops[s].job_id, "removed")
    /\ ops' = [ops EXCEPT ![s].pc = "done", ![s].result = "removed"]
    /\ listed' = listed \cup {r.job_id : r \in get_all_tasks(tasks)}
    /\ UNCHANGED <<tasks, live, started, setup_calls, alertVars, calVars, fanVars, ownerVars>>

AddTaskBeginAny == \E s \in Slots : AddTaskBegin(s)
AddTaskWriteAny == \E s \in Slots : AddTaskWrite(s)
AddTaskScheduleAny == \E s \in Slots : AddTaskSchedule(s)
RemoveTaskBeginAny == \E s \in Slots : RemoveTaskBegin(s)
RemoveTaskWriteAny == \E s \in Slots : RemoveTaskWrite(s)
RemoveTaskAnswerAny == \E s \in Slots : RemoveTaskAnswer(s)

NextAdmin ==
    \/ OnStartup
    \/ ListTasksPromptHandler
    \/ AddTaskBeginAny
    \/ AddTaskWriteAny
    \/ AddTaskScheduleAny
    \/ RemoveTaskBeginAny
    \/ RemoveTaskWriteAny
    \/ RemoveTaskAnswerAny

SpecAdmin == Init /\ [][NextAdmin]_vars

(***************************************************************************)
(* The alert menus: who can reach the deletion of which alert              *)
(***************************************************************************)
Button(user_id, data, alert_id) == [user |-> user_id, data |-> data, id |-> alert_id]

\* DB.get_user_price_alerts(user_id, active_only=False)
get_user_price_alerts(rows, user_id) == {r \in rows : r.user_id = user_id}

\* DB.get_price_alert_by_id
get_price_alert_by_id(rows, alert_id) == {r \in rows : r.id = alert_id}

\* set_alert_frequency_handler, by any of the users
CreateAlertHandler ==
    /\ next_uid <= MaxAlerts
    /\ \E user_id \in Owners, alert_type \in AlertType :
          alerts' = add_price_alert(alerts, next_uid, user_id, "XAUUSD", 2300,
                                    alert_type, TRUE)
    /\ next_uid' = next_uid + 1
    /\ UNCHANGED <<tickVars, calVars, jobVars, fanVars, adminVars, ownerVars>>

\* show_user_alerts_menu: one "alert_manage:<id>" button per alert of the
\* sender. A menu sent earlier stays in the chat with its buttons.
ShowUserAlertsMenu ==
    /\ \E user_id \in Owners :
          keyboards' = keyboards \cup
              {Button(user_id, "alert_manage", r.id) :
                  r \in get_user_price_alerts(alerts, user_id)}
    /\ UNCHANGED <<alertVars, calVars, jobVars, fanVars, adminVars, fsm, deletions, analyses>>

\* if not alert or alert.user_id != query.from_user.id: "Alert not found."
manage_allowed(alert, user_id) == \E r \in alert : r.user_id = user_id

\* manage_specific_alert_handler: the details of the alert and the
\* "alert_action:delete:<id>" button.
ManageSpecificAlertHandler ==
    /\ \E b \in keyboards :
          /\ b.data = "alert_manage"
          /\ IF manage_allowed(get_price_alert_by_id(alerts, b.id), b.user)
             THEN keyboards' = keyboards \cup
                                  {Button(b.user, "alert_action:delete", b.id)}
             ELSE UNCHANGED keyboards
    /\ UNCHANGED <<alertVars, calVars, jobVars, fanVars, adminVars, fsm, deletions, analyses>>

\* confirm_delete_alert_handler: the id of the callback data goes to the FSM
\* data and the "Yes, delete" button is shown.
ConfirmDeleteAlertHandler ==
    /\ \E b \in keyboards :
          /\ b.data = "alert_action:delete"
          /\ fsm' = [fsm EXCEPT ![b.user] =
                        [@ EXCEPT !.state = "delete_alert_confirm",
                                  !.alert_to_delete = b.id]]
          /\ keyboards' = keyboards \cup {Button(b.user, "alert_delete_confirmed", 0)}
    /\ UNCHANGED <<alertVars, calVars, jobVars, fanVars, adminVars, deletions, analyses>>

\* delete_alert_handler: deletes the alert of the FSM data.
DeleteConfirmedHandler ==
    /\ \E b \in keyboards :
          /\ b.data = "alert_delete_confirmed"
          /\ fsm[b.user].state = "delete_alert_confirm"
          /\ LET alert_id == fsm[b.user].alert_to_delete
             IN IF alert_id # 0
                THEN /\ alerts' = delete_price_alert(alerts, alert_id)
                     /\ deletions' = deletions \cup
                           {[uid |-> r.uid, owner |-> r.user_id, by |-> b.user] :
                               r \in get_price_alert_by_id(alerts, alert_id)}
                ELSE UNCHANGED <<alerts, deletions>>
          /\ fsm' = [fsm EXCEPT ![b.user] = NoState]
    /\ UNCHANGED <<next_uid, tickVars, calVars, jobVars, fanVars, adminVars, keyboards, analyses>>

NextOwners ==
    \/ CreateAlertHandler
    \/ ShowUserAlertsMenu
    \/ ManageSpecificAlertHandler
    \/ ConfirmDeleteAlertHandler
    \/ DeleteConfirmedHandler

SpecOwners == Init /\ [][NextOwners]_vars

NextFanout ==
    \/ StartHandler
    \/ ToggleVipHandler
    \/ SendBroadcastConfirmHandler
    \/ SendDailyEconomicCalendarJob
    \/ ScheduledAnalysisJob

SpecFanout == Init /\ [][NextFanout]_vars

(***************************************************************************)
(* MyfxbookCalendarScraper (src/app/scheduler.py)                          *)
(*                                                                         *)
(* A date text of the page is modelled by its parts: the month word and    *)
(* the day before the comma, and after it the hour, the minute and the     *)
(* AM/PM suffix as written. A datetime is the record of its fields; all    *)
(* datetimes are Baghdad time, so they compare as their fields do.         *)
(***************************************************************************)
MaxRows == 3

Time(hh, mm, ampm) == [given |-> TRUE, hh |-> hh, mm |-> mm, ampm |-> ampm]

\* no comma in the text: time_part = ""
NoTime == [given |-> FALSE, hh |-> 0, mm |-> 0, ampm |-> ""]

DateStr(mon, day, time) == [mon |-> mon, day |-> day, time |-> time]

Datetime(year, month, day, hour, minute) ==
    [year |-> year, month |-> month, day |-> day, hour |-> hour, minute |-> minute]

\* return None
NoDatetime == Datetime(0, 0, 0, 0, 0)

\* The time of day a strptime call returns; ValueError is NoClock.
Clock(hour, minute) == [ok |-> TRUE, hour |-> hour, minute |-> minute]
NoClock == [ok |-> FALSE, hour |-> 0, minute |-> 0]

\* %b for the months of the modelled dates; any other word is a ValueError.
MonthOf(mon) == IF mon = "Jan" THEN 1 ELSE IF mon = "Dec" THEN 12 ELSE 0

\* The days of the months of the modelled dates, January and December.
DaysIn(month) == 31

\* the 24-hour format never tried
strptime_24h_never(time) == NoClock

\* datetime.strptime(time_part, "%H:%M")
strptime_24h(time) ==
    IF time.ampm = "" /\ 0 <= time.hh /\ time.hh <= 23 /\ 0 <= time.mm /\ time.mm <= 59
    THEN Clock(time.hh, time.mm)
    ELSE NoClock

\* datetime.strptime(time_part.upper(), "%I:%M%p"): upper() makes "am" and
\* "pm" the "AM" and "PM" that %p reads
strptime_12h(time) ==
    IF time.ampm \in {"AM", "PM", "am", "pm"}
       /\ 1 <= time.hh /\ time.hh <= 12 /\ 0 <= time.mm /\ time.mm <= 59
    THEN Clock((time.hh % 12) + (IF time.ampm \in {"PM", "pm"} THEN 12 ELSE 0), time.mm)
    ELSE NoClock

\* _parse_event_datetime: the year is the current year in Baghdad; a text
\* without a time is midnight; every ValueError returns None.
parse_event_datetime(date_str, now) ==
    LET current_year == now[1]
        month == MonthOf(date_str.mon)
        event_time == IF strptime_12h(date_str.time).ok
                      THEN strptime_12h(date_str.time)
                      ELSE strptime_24h(date_str.time)
        \* strptime(f"{date_part} {current_year}", "%b %d %Y") succeeds
        date_parses == /\ month # 0
                       /\ 1 <= date_str.day /\ date_str.day <= DaysIn(month)
    IN IF ~date_parses THEN NoDatetime
       ELSE IF ~date_str.time.given
       THEN Datetime(current_year, month, date_str.day, 0, 0)
       ELSE IF ~event_time.ok THEN NoDatetime
       ELSE Datetime(current_year, month, date_str.day, event_time.hour,
                     event_time.minute)

\* datetime_obj.date()
DateOf(dt) == <<dt.year, dt.month, dt.day>>

\* today_baghdad + timedelta(days=1)
Tomorrow(date) ==
    IF date[3] < DaysIn(date[2]) THEN <<date[1], date[2], date[3] + 1>>
    ELSE IF date[2] < 12 THEN <<date[1], date[2] + 1, 1>>
    ELSE <<date[1] + 1, 1, 1>>

target_currencies == {"USD", "EUR"}
acceptable_impacts == {"Medium", "High"}

\* A <tr class="economicCalendarRow">: whether it has the date div, the
\* number of its <td>, the texts of tds[3] and tds[4] (the event by its
\* length), the text of the impact div or "missing", and the cells data-previous,
\* data-concensus and data-actual: "missing", "empty" or their text.
Row(date_div, date_str, tds, currency, event_len, impact_div, cells) ==
    [date_div |-> date_div, date_str |-> date_str, tds |-> tds,
     currency |-> currency, event_len |-> event_len, impact_div |-> impact_div,
     cells |-> cells]

\* x.text.strip() or default
TextOr(cells, default) == IF cells = "empty" THEN default ELSE cells

\* an event kept whatever its currency and impact
PassesFilterAlways(currency, impact) == TRUE

\* not (currency not in target_currencies or impact not in acceptable_impacts)
PassesFilter(currency, impact) ==
    currency \in target_currencies /\ impact \in acceptable_impacts

\* The body of `for row in rows` for the row at position i: the event it
\* appends, or nothing. A missing cell raises AttributeError, which the except
\* of the loop body logs.
RowEvents(row, i, now) ==
    LET impact == IF row.impact_div = "missing" THEN "None" ELSE row.impact_div
        event_full_dt == parse_event_datetime(row.date_str, now)
    IN IF ~row.date_div THEN <<>>
       ELSE IF row.tds < 6 THEN <<>>
       ELSE IF ~PassesFilter(row.currency, impact) THEN <<>>
       ELSE IF event_full_dt = NoDatetime \/ DateOf(event_full_dt) \notin {now, Tomorrow(now)}
       THEN <<>>
       ELSE IF row.cells = "missing" THEN <<>>
       ELSE <<[row |-> i, datetime_obj |-> event_full_dt, currency |-> row.currency,
               event_len |-> row.event_len, impact |-> impact,
               previous |-> TextOr(row.cells, "N/A"),
               forecast |-> TextOr(row.cells, "N/A"),
               actual |-> TextOr(row.cells, "Not released")]>>

\* the loop left at the first row whose cell is missing
RECURSIVE EconomicEventsAborted(_, _, _)
EconomicEventsAborted(rows, i, now) ==
    IF i > Len(rows) \/ rows[i].cells = "missing" THEN <<>>
    ELSE RowEvents(rows[i], i, now) \o EconomicEventsAborted(rows, i + 1, now)

\* economic_events after the loop has passed rows[i..]
RECURSIVE EconomicEvents(_, _, _)
EconomicEvents(rows, i, now) ==
    IF i > Len(rows) THEN <<>>
    ELSE RowEvents(rows[i], i, now) \o EconomicEvents(rows, i + 1, now)

\* The sort key: datetimes order as their fields do.
Key(dt) == (((dt.year * 12 + dt.month) * 31 + dt.day) * 24 + dt.hour) * 60 + dt.minute

\* One element put into a sorted list, after the elements with the same key.
RECURSIVE Insert(_, _)
Insert(sorted, e) ==
    IF sorted = <<>> THEN <<e>>
    ELSE IF Key(e.datetime_obj) < Key(Head(sorted).datetime_obj)
    THEN <<e>> \o sorted
    ELSE <<Head(sorted)>> \o Insert(Tail(sorted), e)

\* the list returned as the loop built it
SortUnsorted(evs) == evs

\* economic_events.sort(key=lambda x: x['datetime_obj']): stable
RECURSIVE Sort(_)
Sort(evs) ==
    IF evs = <<>> THEN <<>>
    ELSE Insert(Sort(SubSeq(evs, 1, Len(evs) - 1)), evs[Len(evs)])

\* _scrape_calendar: the sorted events of the page, or [] when the request
\* or the parsing of the page raised.
ScrapeCalendar(response, rows, now) ==
    IF response = "ok" THEN Sort(EconomicEvents(rows, 1, now)) ELSE <<>>

(***************************************************************************)
(* The calendar texts: send_daily_economic_calendar_job (scheduler.py) and *)
(* myfxbook_calendar_menu_handler (handlers/user.py). A text is modelled   *)
(* by its length, len(message_text), and the events written into it.       *)
(***************************************************************************)
TransportLimit == 4096
HandlerHeaderLen == 76
HandlerNoEventsLen == 117
HandlerEventFixedLen == 72
JobHeaderLen == 86
JobNoEventsLen == 123
JobEventFixedLen == 79
DayHeaderFixedLen == 17

Text(len, rows) == [len |-> len, rows |-> rows]

\* day_str = "Today" if event_day == today else "Tomorrow"
DayStr(event, now) == IF DateOf(event.datetime_obj) = now THEN "Today" ELSE "Tomorrow"

\* len of f"\n--- **{current_day_str} - {event_day.strftime('%A, %d %B')}** ---\n"
DayHeaderLen(event, now) ==
    LET date == DateOf(event.datetime_obj)
        \* event_day.strftime('%A, %d %B') for the dates an event can have
        date_text == IF date = <<2026, 1, 5>> THEN "Monday, 05 January"
                     ELSE IF date = <<2026, 1, 6>> THEN "Tuesday, 06 January"
                     ELSE IF date = <<2026, 12, 31>> THEN "Thursday, 31 December"
                     ELSE "Friday, 01 January"
    IN DayHeaderFixedLen + Len(DayStr(event, now)) + Len(date_text)

\* len of the text of one event: the literal parts, the time as HH:MM, and
\* the texts of the row.
EventTextLen(event, fixed) ==
    fixed + event.event_len + Len(event.currency) + Len(event.previous)
          + Len(event.forecast) + Len(event.actual)

\* message_text with the day header of the event, where the day changes
WithDayHeader(text, event, current_day_str, now) ==
    IF DayStr(event, now) # current_day_str
    THEN Text(text.len + DayHeaderLen(event, now), text.rows)
    ELSE text

\* message_text += event_text
WithEvent(text, event, fixed) ==
    Text(text.len + EventTextLen(event, fixed), Append(text.rows, event.row))

\* The for loop of the job from events[i] on: everything goes into the one
\* message_text.
RECURSIVE JobLoop(_, _, _, _, _)
JobLoop(evs, i, text, current_day_str, now) ==
    IF i > Len(evs) THEN text
    ELSE JobLoop(evs, i + 1,
                 WithEvent(WithDayHeader(text, evs[i], current_day_str, now), evs[i],
                           JobEventFixedLen),
                 DayStr(evs[i], now), now)

\* The texts send_daily_economic_calendar_job gives to bot.send_message, the
\* same text for every user.
JobTexts(evs, now) ==
    IF evs = <<>> THEN <<Text(JobNoEventsLen, <<>>)>>
    ELSE <<JobLoop(evs, 1, Text(JobHeaderLen, <<>>), "", now)>>

\* The for loop of the handler from events[i] on: the texts given to
\* message.answer so far and the message_text being built. A text is flushed
\* where len(message_text) + len(event_text) > 4096; the transport takes a
\* text of 1 to 4096 characters and raises for any other, and the exception
\* ends the handler.
RECURSIVE HandlerLoop(_, _, _, _, _, _)
HandlerLoop(evs, i, text, current_day_str, answered, now) ==
    IF i > Len(evs)
    THEN IF text.len > 0 THEN Append(answered, text) ELSE answered
    ELSE LET headed == WithDayHeader(text, evs[i], current_day_str, now)
             event_len == EventTextLen(evs[i], HandlerEventFixedLen)
         IN IF headed.len + event_len > TransportLimit
            THEN IF 1 <= headed.len /\ headed.len <= TransportLimit
                 THEN HandlerLoop(evs, i + 1, WithEvent(Text(0, <<>>), evs[i],
                                                        HandlerEventFixedLen),
                                  DayStr(evs[i], now), Append(answered, headed), now)
                 ELSE Append(answered, headed)
            ELSE HandlerLoop(evs, i + 1, WithEvent(headed, evs[i], HandlerEventFixedLen),
                             DayStr(evs[i], now), answered, now)

\* The calendar texts myfxbook_calendar_menu_handler gives to the transport.
HandlerTexts(evs, now) ==
    IF evs = <<>> THEN <<Text(HandlerNoEventsLen, <<>>)>>
    ELSE HandlerLoop(evs, 1, Text(HandlerHeaderLen, <<>>), "", <<>>, now)

\* The rows of the pages: a USD event of high impact at each date text; rows
\* that differ from it in one respect; and events with long names.
CalendarRows ==
    LET date_strs ==
            {DateStr("Jan", 5, Time(2, 30, "PM")), DateStr("Jan", 5, Time(14, 30, "")),
             DateStr("Jan", 5, Time(12, 0, "AM")), DateStr("Jan", 5, NoTime),
             DateStr("Jan", 6, Time(9, 0, "am")), DateStr("Jan", 7, Time(10, 0, "")),
             DateStr("Jan", 5, Time(25, 0, "")), DateStr("Tentative", 0, NoTime),
             DateStr("Dec", 31, Time(11, 0, "PM"))}
    IN {Row(TRUE, d, 6, "USD", 30, "High", "0.3%") : d \in date_strs}
    \cup {Row(FALSE, DateStr("Jan", 5, Time(2, 30, "PM")), 6, "USD", 30, "High", "0.3%"),
          Row(TRUE, DateStr("Jan", 5, Time(2, 30, "PM")), 5, "USD", 30, "High", "0.3%"),
          Row(TRUE, DateStr("Jan", 5, Time(2, 30, "PM")), 6, "GBP", 30, "High", "0.3%"),
          Row(TRUE, DateStr("Jan", 5, Time(2, 30, "PM")), 6, "USD", 30, "Low", "0.3%"),
          Row(TRUE, DateStr("Jan", 5, Time(2, 30, "PM")), 6, "USD", 30, "missing", "0.3%"),
          Row(TRUE, DateStr("Jan", 5, Time(2, 30, "PM")), 6, "USD", 30, "High", "missing"),
          Row(TRUE, DateStr("Jan", 6, Time(9, 0, "am")), 6, "EUR", 30, "Medium", "empty")}
    \cup {Row(TRUE, DateStr("Jan", 5, NoTime), 6, "EUR", 3850, "Medium", "0.3%"),
          Row(TRUE, DateStr("Jan", 6, Time(9, 0, "am")), 6, "USD", 2000, "High", "0.3%")}

\* The request and the parsing of the page succeed, or raise
\* aiohttp.ClientError or any other exception.
Responses == {"ok", "error"}

\* A page and the day it is read; the bot has one user.
InitPage ==
    /\ users = {User(101, FALSE)}
    /\ calendar_rows \in UNION {[1..n -> CalendarRows] : n \in 0..MaxRows}
    /\ today \in {<<2026, 1, 5>>, <<2026, 12, 31>>}
    /\ calpc = "idle"
    /\ page_response = "none"
    /\ calendar_events = <<>>
    /\ outbox = <<>>

InitCalendar == InitAlerts /\ InitJobsIdle /\ InitHandlers /\ InitPage

\* events = await scraper._scrape_calendar(), in the job
DigestJobScrape ==
    /\ calpc = "idle"
    /\ \E response \in Responses :
          /\ page_response' = response
          /\ calendar_events' = ScrapeCalendar(response, calendar_rows, today)
    /\ calpc' = "job_scraped"
    /\ UNCHANGED <<calendar_rows, today, outbox, alertVars, jobVars, fanVars, adminVars,
                   ownerVars>>

\* The job resumes: it builds the text and, if there are users, sends it to
\* all of them.
DigestJobSend ==
    /\ calpc = "job_scraped"
    /\ outbox' = IF get_all_active_users(users) = {} THEN <<>>
                 ELSE JobTexts(calendar_events, today)
    /\ calpc' = "job_done"
    /\ UNCHANGED <<calendar_rows, today, page_response, calendar_events, alertVars,
                   jobVars, fanVars, adminVars, ownerVars>>

\* events = await scraper._scrape_calendar(), in the handler
CalendarMenuHandlerScrape ==
    /\ calpc = "idle"
    /\ \E response \in Responses :
          /\ page_response' = response
          /\ calendar_events' = ScrapeCalendar(response, calendar_rows, today)
    /\ calpc' = "handler_scraped"
    /\ UNCHANGED <<calendar_rows, today, outbox, alertVars, jobVars, fanVars, adminVars,
                   ownerVars>>

\* The handler resumes and answers.
CalendarMenuHandlerAnswer ==
    /\ calpc = "handler_scraped"
    /\ outbox' = HandlerTexts(calendar_events, today)
    /\ calpc' = "handler_done"
    /\ UNCHANGED <<calendar_rows, today, page_response, calendar_events, alertVars,
                   jobVars, fanVars, adminVars, ownerVars>>

NextCalendar ==
    \/ DigestJobScrape
    \/ DigestJobSend
    \/ CalendarMenuHandlerScrape
    \/ CalendarMenuHandlerAnswer

SpecCalendar == InitCalendar /\ [][NextCalendar]_vars

(***************************************************************************)
(* The alert-creation conversation (src/app/handlers/user.py): one user,   *)
(* the messages that carry the menu or the asset keyboard, and the FSM     *)
(* state and data of the user.                                             *)
(***************************************************************************)
MaxCreated == 4
MaxMenus == 2
FreeAlertLimit == 3

\* A Python float: a number, or nan.
Float(v) == [nan |-> FALSE, v |-> v]
NaN == [nan |-> TRUE, v |-> 0]

\* A row of users with the columns the handlers read.
Account(id, subscription_tier, is_vip, credits) ==
    [id |-> id, is_vip |-> is_vip, subscription_tier |-> subscription_tier,
     credits |-> credits]

\* DB.get_user
get_user(rows, user_id) == CHOOSE r \in rows : r.id = user_id

\* DB.get_user_price_alerts(user.id, active_only=True)
get_active_user_price_alerts(rows, user_id) ==
    {r \in rows : r.user_id = user_id /\ r.is_active}

\* The assets of get_alert_asset_keyboard, without the "other_asset" button.
AlertKeyboardAssets == {"XAUUSD"}

\* A message of the chat that carries no keyboard of the conversation, for
\* the next menu: 0 when the chat holds MaxMenus such keyboards.
FreeMessage(user_id) ==
    LET free == {m \in 1..MaxMenus :
                    ~\E b \in keyboards :
                        b.user = user_id /\ b.id = m
                        /\ b.data \in {"alerts:add", "set_alert"}}
    IN IF free = {} THEN 0 ELSE CHOOSE m \in free : \A x \in free : m <= x

\* The keyboards with the alerts menu sent or edited into a message.
WithMenu(user_id) ==
    IF FreeMessage(user_id) = 0 THEN keyboards
    ELSE keyboards \cup {Button(user_id, "alerts:add", FreeMessage(user_id))}

\* price_alerts_menu_handler: the menu, with its "alerts:add" button, in a
\* new message.
price_alerts_menu_handler ==
    /\ \E user_id \in Users :
          /\ FreeMessage(user_id) # 0
          /\ keyboards' = WithMenu(user_id)
    /\ UNCHANGED <<alertVars, calVars, jobVars, fanVars, adminVars, fsm, deletions,
                   analyses>>

\* start_add_alert_handler: the limit of the free plan, then the asset
\* keyboard in place of the menu.
start_add_alert_handler ==
    /\ \E b \in keyboards :
          /\ b.data = "alerts:add"
          /\ LET user == get_user(users, b.user)
                 active_alerts_count ==
                     Cardinality(get_active_user_price_alerts(alerts, user.id))
             IN IF user.subscription_tier = "free"
                   /\ active_alerts_count >= FreeAlertLimit
                THEN UNCHANGED <<fsm, keyboards>>
                ELSE /\ fsm' = [fsm EXCEPT ![b.user].state = "set_alert_asset"]
                     /\ keyboards' = (keyboards \ {b})
                                          \cup {Button(b.user, "set_alert", b.id)}
    /\ UNCHANGED <<alertVars, calVars, jobVars, fanVars, adminVars, deletions,
                   analyses>>

\* select_alert_asset_handler: a button of an asset keyboard that is in the
\* chat, whatever the FSM state.
select_alert_asset_handler ==
    /\ \E b \in keyboards :
          /\ b.data = "set_alert"
          /\ \E asset_selected \in AlertKeyboardAssets \cup {"other_asset"} :
                LET user == get_user(users, b.user)
                IN IF asset_selected = "other_asset"
                   THEN IF user.subscription_tier = "free" /\ ~user.is_vip
                        THEN UNCHANGED <<fsm, keyboards>>
                        ELSE /\ fsm' = [fsm EXCEPT ![b.user].state = "set_alert_asset"]
                             /\ keyboards' = keyboards \ {b}
                   ELSE /\ fsm' = [fsm EXCEPT ![b.user].alert_asset = asset_selected,
                                               ![b.user].state = "set_alert_price"]
                        /\ keyboards' = keyboards \ {b}
    /\ UNCHANGED <<alertVars, calVars, jobVars, fanVars, adminVars, deletions,
                   analyses>>

\* message.text.upper().strip() of the texts a user types for an asset
SymbolOf(text) ==
    IF text = "googl" THEN "GOOGL" ELSE IF text = "x" THEN "X" ELSE "EUR/USD"

\* handle_custom_alert_asset: any text sent in the state set_alert_asset.
handle_custom_alert_asset ==
    /\ \E user_id \in Users, text \in {"googl", "x", "eur/usd"} :
          /\ fsm[user_id].state = "set_alert_asset"
          /\ LET asset_symbol == SymbolOf(text)
                 isalnum == asset_symbol # "EUR/USD"
             IN IF ~isalnum \/ ~(2 <= Len(asset_symbol) /\ Len(asset_symbol) <= 10)
                THEN UNCHANGED fsm
                ELSE fsm' = [fsm EXCEPT ![user_id].alert_asset = asset_symbol,
                                        ![user_id].state = "set_alert_price"]
    /\ UNCHANGED <<alertVars, calVars, jobVars, fanVars, adminVars, keyboards,
                   deletions, analyses>>

\* float(message.text) of the texts a user types for a price
float(text) ==
    IF text = "2300" THEN Returned(Float(2300))
    ELSE IF text = "0" THEN Returned(Float(0))
    ELSE IF text = "-5" THEN Returned(Float(-5))
    ELSE IF text = "nan" THEN Returned(NaN)
    ELSE Raised

\* the price taken without the test `price <= 0`
ParsePriceUnchecked(text) == float(text)

\* price = float(message.text); if price <= 0: raise ValueError. Every
\* comparison with nan is False.
ParsePrice(text) ==
    LET price == float(text)
    IN IF price.raised THEN Raised
       ELSE IF ~price.value.nan /\ price.value.v <= 0 THEN Raised
       ELSE price

\* set_alert_price_handler
set_alert_price_handler ==
    /\ \E user_id \in Users, text \in {"2300", "0", "-5", "nan", "abc"} :
          /\ fsm[user_id].state = "set_alert_price"
          /\ LET price == ParsePrice(text)
             IN IF price.raised THEN UNCHANGED fsm
                ELSE fsm' = [fsm EXCEPT ![user_id].target_price = price.value,
                                        ![user_id].state = "set_alert_type"]
    /\ UNCHANGED <<alertVars, calVars, jobVars, fanVars, adminVars, keyboards,
                   deletions, analyses>>

\* set_alert_type_handler: a button of get_alert_type_keyboard.
set_alert_type_handler ==
    /\ \E user_id \in Users, data \in {"above", "below"} :
          /\ fsm[user_id].state = "set_alert_type"
          /\ fsm' = [fsm EXCEPT ![user_id].alert_type = data,
                                 ![user_id].state = "set_alert_frequency"]
    /\ UNCHANGED <<alertVars, calVars, jobVars, fanVars, adminVars, keyboards,
                   deletions, analyses>>

\* set_alert_frequency_handler: the "one_time" button of
\* get_alert_frequency_keyboard.
\* AlertType(...) raises for another word; the insert raises for nan, which
\* SQLite binds as NULL into a column that is NOT NULL. After an exception
\* the state is not cleared.
set_alert_frequency_handler ==
    /\ next_uid <= MaxCreated
    /\ \E user_id \in Users, freq \in {"one_time"} :
          /\ fsm[user_id].state = "set_alert_frequency"
          /\ LET data == fsm[user_id]
                 is_one_time_alert == freq = "one_time"
             IN IF data.alert_type \notin AlertType \/ data.target_price.nan
                THEN UNCHANGED <<alerts, next_uid, fsm, keyboards>>
                ELSE /\ alerts' = add_price_alert(alerts, next_uid, user_id,
                                                  data.alert_asset, data.target_price.v,
                                                  data.alert_type, is_one_time_alert)
                     /\ next_uid' = next_uid + 1
                     /\ fsm' = [fsm EXCEPT ![user_id] = NoState]
                     /\ keyboards' = WithMenu(user_id)
    /\ UNCHANGED <<tickVars, calVars, jobVars, fanVars, adminVars, deletions,
                   analyses>>

\* One user on the free plan, the column default, VIP or not, with the
\* credits of a new row.
InitAlertFlow ==
    /\ InitAlerts /\ InitJobsIdle /\ InitHandlers /\ InitCalendarIdle
    /\ \E is_vip \in BOOLEAN : users = {Account(101, "free", is_vip, 10)}

NextAlertFlow ==
    \/ price_alerts_menu_handler
    \/ start_add_alert_handler
    \/ select_alert_asset_handler
    \/ handle_custom_alert_asset
    \/ set_alert_price_handler
    \/ set_alert_type_handler
    \/ set_alert_frequency_handler

SpecAlertFlow == InitAlertFlow /\ [][NextAlertFlow]_vars

(***************************************************************************)
(* The add-task conversation of an admin                                   *)
(***************************************************************************)
MaxTasks == 2

\* The admin who holds the conversation.
TaskAdmin == ADMIN_IDS[1]

\* What a typed number is taken for: a value, a refusal, or an exception.
Parsed(kind, value) == [kind |-> kind, value |-> value]

\* str.isdigit(): every character is a digit character; a sign, a letter
\* and the empty text are not, a superscript digit is.
isdigit(text) == text \in {"0", "8", "23", "24", "59", "60", "²"}

\* int(text): a superscript digit is no decimal digit.
int(text) ==
    CASE text = "0" -> Parsed("ok", 0)
      [] text = "8" -> Parsed("ok", 8)
      [] text = "23" -> Parsed("ok", 23)
      [] text = "24" -> Parsed("ok", 24)
      [] text = "59" -> Parsed("ok", 59)
      [] text = "60" -> Parsed("ok", 60)
      [] text = "-1" -> Parsed("ok", -1)
      [] OTHER -> Parsed("raised", None)

\* the test without its range
ParseInRangeUnranged(text, lo, hi) ==
    IF ~isdigit(text) THEN Parsed("invalid", None) ELSE int(text)

\* if not message.text.isdigit() or not (lo <= int(message.text) <= hi):
\*     return ...; then int(message.text)
ParseInRange(text, lo, hi) ==
    IF ~isdigit(text) THEN Parsed("invalid", None)
    ELSE LET n == int(text)
         IN IF n.kind = "raised" THEN n
            ELSE IF ~(lo <= n.value /\ n.value <= hi) THEN Parsed("invalid", None)
            ELSE n

\* message.text.upper() of the asset texts.
upper(text) == IF text = "xauusd" THEN "XAUUSD" ELSE text

add_task_prompt_handler ==
    /\ started
    /\ fsm' = [fsm EXCEPT ![TaskAdmin].state = "add_task_asset"]
    /\ reply' = Answer("prompt", None, "asset?")
    /\ UNCHANGED <<tasks, live, started, setup_calls, alertVars, fanVars,
                   adminVars, keyboards, deletions, analyses, calVars>>

add_task_asset_handler ==
    /\ started
    /\ fsm[TaskAdmin].state = "add_task_asset"
    /\ \E text \in {"xauusd", "EURUSD"} :
          fsm' = [fsm EXCEPT ![TaskAdmin].asset = upper(text),
                             ![TaskAdmin].state = "add_task_hour"]
    /\ reply' = Answer("asset", None, "hour?")
    /\ UNCHANGED <<tasks, live, started, setup_calls, alertVars, fanVars,
                   adminVars, keyboards, deletions, analyses, calVars>>

\* An exception leaves the handler before anything is sent or stored.
add_task_hour_handler ==
    /\ started
    /\ fsm[TaskAdmin].state = "add_task_hour"
    /\ \E text \in {"8", "23", "24", "-1", "abc", "²"} :
          LET hour == ParseInRange(text, 0, 23)
          IN CASE hour.kind = "raised" -> UNCHANGED <<fsm, reply>>
               [] hour.kind = "invalid" ->
                    /\ reply' = Answer("hour", None, "invalid")
                    /\ UNCHANGED fsm
               [] OTHER ->
                    /\ fsm' = [fsm EXCEPT ![TaskAdmin].hour = hour.value,
                                          ![TaskAdmin].state = "add_task_minute"]
                    /\ reply' = Answer("hour", None, "minute?")
    /\ UNCHANGED <<tasks, live, started, setup_calls, alertVars, fanVars,
                   adminVars, keyboards, deletions, analyses, calVars>>

\* The whole handler; a refused insert (the job_id is in the table but not in
\* the schedule) raises before add_job and state.clear().
add_task_minute_handler ==
    /\ started
    /\ fsm[TaskAdmin].state = "add_task_minute"
    /\ \E text \in {"0", "59", "60", "x", "²"} :
          LET parsed == ParseInRange(text, 0, 59)
              data == fsm[TaskAdmin]
              asset == data.asset
              hour == data.hour
              minute == parsed.value
              job_id == JobId(asset, hour, minute)
          IN CASE parsed.kind = "raised" -> UNCHANGED <<fsm, reply, tasks, live>>
               [] parsed.kind = "invalid" ->
                    /\ reply' = Answer("minute", None, "invalid")
                    /\ UNCHANGED <<fsm, tasks, live>>
               [] OTHER ->
                    IF get_job(live, job_id)
                    THEN /\ reply' = Answer("add", job_id, "exists")
                         /\ UNCHANGED <<fsm, tasks, live>>
                    ELSE IF ~add_task_ok(tasks, job_id)
                    THEN /\ reply' = Answer("add", job_id, "error")
                         /\ UNCHANGED <<fsm, tasks, live>>
                    ELSE /\ BagCardinality(tasks) < MaxTasks
                         /\ tasks' = add_task(tasks, job_id, asset, hour, minute)
                         /\ live' = add_job(live, AnalysisJob(job_id, asset, hour, minute))
                         /\ fsm' = [fsm EXCEPT ![TaskAdmin] = NoState]
                         /\ reply' = Answer("add", job_id, "scheduled")
    /\ UNCHANGED <<started, setup_calls, alertVars, fanVars, adminVars,
                   keyboards, deletions, analyses, calVars>>

\* remove_task_handler on a button of a task list: the job id of a task.
remove_task_handler ==
    /\ started
    /\ \E r \in DOMAIN tasks :
          /\ live' = IF get_job(live, r.job_id) THEN remove_job(live, r.job_id) ELSE live
          /\ tasks' = delete_task(tasks, r.job_id)
          /\ reply' = Answer("remove", r.job_id, "removed")
    /\ UNCHANGED <<started, setup_calls, alertVars, extVars>>

\* The process of a bot with one admin and an empty table of tasks.
InitTaskFlow ==
    /\ InitAlerts /\ InitJobsIdle /\ InitCalendarIdle
    /\ users = {}
    /\ run = NoRun
    /\ ops = [s \in Slots |-> Idle]
    /\ listed = {}
    /\ keyboards = {}
    /\ fsm = [u \in {TaskAdmin} |-> NoState]
    /\ deletions = {}
    /\ analyses = [s \in Slots |-> NoAnalysis]

NextTaskFlow ==
    \/ OnStartup
    \/ Restart
    \/ add_task_prompt_handler
    \/ add_task_asset_handler
    \/ add_task_hour_handler
    \/ add_task_minute_handler
    \/ remove_task_handler

SpecTaskFlow == InitTaskFlow /\ [][NextTaskFlow]_vars

(***************************************************************************)
(* Analysis credits: the analyze callbacks of one user, run concurrently   *)
(***************************************************************************)
MaxCredits == 2

\* DB.change_credits: one UPDATE ... SET credits = credits + amount.
change_credits(rows, user_id, amount) ==
    {IF r.id = user_id
     THEN Account(r.id, r.subscription_tier, r.is_vip, r.credits + amount)
     ELSE r : r \in rows}

\* analyze_callback_handler up to its first await after the read: the User
\* row is read and kept; the button is one of the assets of the keyboard.
AnalyzeRead(s) ==
    /\ analyses[s].pc # "read"
    /\ \E user_id \in Users :
          analyses' = [analyses EXCEPT ![s] = [pc |-> "read",
                                               user |-> get_user(users, user_id)]]
    /\ UNCHANGED <<users, run, alertVars, jobVars, adminVars, keyboards, fsm,
                   deletions, calVars>>

\* The rest of the handler, after `await query.answer()`: the test is made on
\* the row that was read, the deduction on the row of the table.
AnalyzeServe(s) ==
    /\ analyses[s].pc = "read"
    /\ LET user == analyses[s].user
       IN IF user.subscription_tier = "free" /\ ~user.is_vip
          THEN IF user.credits <= 0
               THEN /\ analyses' = [analyses EXCEPT ![s].pc = "refused"]
                    /\ UNCHANGED users
               ELSE /\ users' = change_credits(users, user.id, -1)
                    /\ analyses' = [analyses EXCEPT ![s].pc = "served"]
          ELSE /\ analyses' = [analyses EXCEPT ![s].pc = "served"]
               /\ UNCHANGED users
    /\ UNCHANGED <<run, alertVars, jobVars, adminVars, keyboards, fsm,
                   deletions, calVars>>

AnalyzeReadAny == \E s \in Slots : AnalyzeRead(s)
AnalyzeServeAny == \E s \in Slots : AnalyzeServe(s)

\* One user with some credits left or none, on any plan.
InitCredits ==
    /\ InitAlerts /\ InitJobsIdle /\ InitHandlers /\ InitCalendarIdle
    /\ \E tier \in {"free", "standard"}, is_vip \in BOOLEAN, credits \in 0..MaxCredits :
          users = {Account(101, tier, is_vip, credits)}

NextCredits ==
    \/ AnalyzeReadAny
    \/ AnalyzeServeAny

SpecCredits == InitCredits /\ [][NextCredits]_vars

NextAlerts ==
    \/ TickStart
    \/ TickFetch
    \/ TickLoad
    \/ TickSweep
    \/ TickFlush
    \/ SetAlertFrequencyHandler
    \/ DeleteAlertHandler

SpecAlerts == Init /\ [][NextAlerts]_vars

\* Every await of the tick returns: the gather over the fetches, the two
\* reads of the table, each send and the batched update end by an answer, an
\* error or a timeout.
SpecAlertsFair ==
    /\ SpecAlerts
    /\ WF_vars(TickFetch) /\ WF_vars(TickLoad) /\ WF_vars(TickSweep)
    /\ WF_vars(TickFlush)

NextStore == NextAlerts \/ DeactivatePriceAlert

SpecStore == Init /\ [][NextStore]_vars

NextJobs ==
    \/ OnStartup
    \/ Restart
    \/ AddTaskMinuteHandler
    \/ RemoveTaskHandler

SpecJobs == Init /\ [][NextJobs]_vars

\* Inputs of setup_scheduler: any table of tasks over ReconcileTriples, and any
\* prior schedule of at most MaxLive jobs with distinct ids, each either one
\* of the two built-in jobs or an analysis job under one of the ids of
\* ReconcileTriples, with that id's parameters or with others.
ReconcileTriples == {<<a, h, 30>> : a \in Assets, h \in Hours}

ReconcileRows ==
    {ScheduledTask(JobId(t[1], t[2], t[3]), t[1], t[2], t[3]) : t \in ReconcileTriples}

PriorJobs ==
    {AnalysisJob(JobId(t[1], t[2], t[3]), t[1], h, t[3]) :
        t \in ReconcileTriples, h \in Hours}
    \cup {PriceAlertChecker, DailyCalendarSender}

PriorSchedules ==
    {S \in SUBSET PriorJobs :
        /\ Cardinality(S) <= MaxLive
        /\ \A x, y \in S : x.id = y.id => x = y}

InitReconcile ==
    /\ tasks \in {SetToBag(R) : R \in SUBSET ReconcileRows}
    /\ live \in {SetToBag(S) : S \in PriorSchedules}
    /\ started = FALSE
    /\ reply = Answer("none", None, None)
    /\ setup_calls = <<>>

InitSetup == InitAlerts /\ InitReconcile /\ InitExt

NextReconcile == SetupSchedulerCall

SpecReconcile == InitSetup /\ [][NextReconcile]_vars

(***************************************************************************)
(* Properties of the evaluator tick                                        *)
(***************************************************************************)
\* The alerts of the snapshot that the loop has passed.
Passed == {active_alerts[i] : i \in {k \in DOMAIN active_alerts : k < idx}}

InTick == pc \in {"sweep", "flush"}

SentUids == {sent[i].uid : i \in DOMAIN sent}

RetiredUids == {n.uid : n \in retired}

\* The threshold condition of the specification, written out.
ThresholdHolds(direction, p, target) ==
    \/ (direction = ABOVE /\ p >= target)
    \/ (direction = BELOW /\ p <= target)

\* C1: in a tick, an alert of the snapshot whose asset has a fetched price p
\* triggers if and only if (ABOVE and p >= target) or (BELOW and p <= target);
\* p = target triggers in both directions.
C1_TriggerIffThreshold ==
    InTick =>
        \A a \in Passed :
            HasPrice(asset_prices, a.asset) =>
                (a.uid \in triggered <=>
                    ThresholdHolds(a.alert_type, asset_prices[a.asset], a.target_price))

\* An ABOVE alert and a BELOW alert both triggered by a price equal to their
\* targets.
C1_Witness ==
    /\ pc = "flush"
    /\ \E a, b \in Passed :
          /\ a.alert_type = ABOVE /\ b.alert_type = BELOW
          /\ HasPrice(asset_prices, a.asset) /\ asset_prices[a.asset] = a.target_price
          /\ HasPrice(asset_prices, b.asset) /\ asset_prices[b.asset] = b.target_price
          /\ {a.uid, b.uid} \subseteq triggered

IsScenarioAlert(a) ==
    /\ a.asset = "XAUUSD"
    /\ a.target_price = 2300
    /\ a.alert_type = ABOVE
    /\ a.is_one_time

NotificationsOf(uid) == {i \in DOMAIN sent : sent[i].uid = uid}

\* C3: the scenario. In a tick with price 2300 the alert triggers and, its send
\* returning, exactly one notification goes to the owner; when the batched
\* write of that tick commits, the alert is inactive; in a later tick with a
\* higher price it gets no notification.
C3_DuringTick ==
    InTick =>
        /\ \A a \in Passed :
              (IsScenarioAlert(a) /\ HasPrice(asset_prices, "XAUUSD")
                                  /\ asset_prices["XAUUSD"] = 2300) =>
                  /\ a.uid \in triggered
                  /\ a.uid \notin send_failures =>
                        /\ Cardinality(NotificationsOf(a.uid)) = 1
                        /\ \A i \in NotificationsOf(a.uid) :
                              sent[i].chat_id = a.user_id /\ sent[i].price = 2300
        /\ \A n \in retired :
              (n.price = 2300 /\ HasPrice(asset_prices, "XAUUSD")
                              /\ asset_prices["XAUUSD"] > 2300) =>
                  n.uid \notin SentUids

C3_AtCommit ==
    (pc = "flush" /\ pc' = "idle" /\ flush' = "ok") =>
        \A a \in Passed :
            (IsScenarioAlert(a) /\ a.uid \in SentUids) =>
                \A r \in alerts' : r.uid = a.uid => ~r.is_active

C3_Scenario == [](C3_DuringTick) /\ [][C3_AtCommit]_vars

\* The scenario alert was notified at 2300 and deactivated by an earlier
\* tick, and this tick runs with XAUUSD at 2301.
C3_Witness ==
    /\ pc = "flush"
    /\ HasPrice(asset_prices, "XAUUSD") /\ asset_prices["XAUUSD"] = 2301
    /\ \E r \in alerts :
          /\ IsScenarioAlert(r)
          /\ ~r.is_active
          /\ \E n \in retired : n.uid = r.uid /\ n.price = 2300 /\ n.chat_id = r.user_id

\* C4: a recurring alert that is active when the tick loads the alerts is in
\* the snapshot; it triggers whenever its asset has a price and the threshold
\* holds, whether or not it triggered before; and the end of the tick leaves
\* its row as it was, active.
C4_RecurringTriggers ==
    InTick =>
        \A a \in Passed :
            (~a.is_one_time /\ HasPrice(asset_prices, a.asset)
                /\ ThresholdHolds(a.alert_type, asset_prices[a.asset], a.target_price))
            => a.uid \in triggered

C4_Loaded ==
    (pc = "load" /\ pc' = "sweep") =>
        \A r \in alerts :
            (r.is_active /\ ~r.is_one_time) =>
                \E i \in DOMAIN active_alerts' : active_alerts'[i] = r

C4_StaysActive ==
    (pc = "flush" /\ pc' = "idle") =>
        \A a \in Passed :
            (~a.is_one_time /\ a.uid \in triggered) =>
                \A r \in alerts : r.uid = a.uid => (r \in alerts' /\ r.is_active)

C4_Recurring == [](C4_RecurringTriggers) /\ [][C4_Loaded /\ C4_StaysActive]_vars

\* A recurring alert that triggered in an earlier tick has triggered again
\* and its notification was delivered again.
C4_Witness ==
    /\ pc = "flush"
    /\ \E a \in Passed :
          /\ ~a.is_one_time
          /\ a.uid \in triggered \cap triggered_before
          /\ a.uid \in SentUids

\* C5: no step takes a row from is_active = false to is_active = true. A row
\* is followed by the insertion that made it: a new alert that is given the
\* primary key of a deleted one is another alert.
C5_NoReactivationStep ==
    \A r \in alerts : \A q \in alerts' :
        (r.uid = q.uid /\ ~r.is_active) => ~q.is_active

C5_NeverReactivated == [][C5_NoReactivationStep]_vars

\* A deactivated alert is in the table while a tick holds a price at which its
\* threshold holds, and while the table has room for another insertion.
C5_Witness ==
    /\ InTick
    /\ \E r \in alerts :
          /\ ~r.is_active
          /\ r.triggered_at = Now
          /\ HasPrice(asset_prices, r.asset)
          /\ ThresholdHolds(r.alert_type, asset_prices[r.asset], r.target_price)

NoDuplicates(s) == \A i, j \in DOMAIN s : s[i] = s[j] => i = j

\* C6: in one tick no alert is evaluated twice, no alert gets two
\* notifications, and every notification goes to the owner of its alert.
C6_OncePerTickToOwner ==
    /\ NoDuplicates(evaluated)
    /\ NoDuplicates([i \in DOMAIN sent |-> sent[i].uid])
    /\ \A i \in DOMAIN sent :
          \E a \in Passed : a.uid = sent[i].uid /\ sent[i].chat_id = a.user_id

\* Two alerts were notified in one tick.
C6_Witness ==
    /\ pc = "flush"
    /\ Len(sent) = 2
    /\ Len(evaluated) = 2

(***************************************************************************)
(* Properties of the live schedule                                         *)
(***************************************************************************)
\* The schedule the last call of setup_scheduler found.
Before == setup_calls[Len(setup_calls)]

LiveWithId(sched, job_id) == LET Same(j) == j.id = job_id IN CountWhere(sched, Same)

JobOfRow(r) == AnalysisJob(r.job_id, r.asset, r.hour, r.minute)

PersistedJobs == {JobOfRow(r) : r \in DOMAIN tasks}

BuiltinJobs == {PriceAlertChecker, DailyCalendarSender}

\* C7: a job scheduled under an id that is live with other parameters ends as
\* the one live job of that id, with the latest parameters.
C7_ReplacedNotDuplicated ==
    Len(setup_calls) >= 1 =>
        \A r \in DOMAIN tasks :
            (\E j \in DOMAIN Before : j.id = r.job_id /\ j # JobOfRow(r)) =>
                /\ LiveWithId(live, r.job_id) = 1
                /\ CopiesIn(JobOfRow(r), live) = 1

\* setup_scheduler has run on a schedule that held a persisted id at another
\* hour.
C7_Witness ==
    /\ Len(setup_calls) >= 1
    /\ \E r \in DOMAIN tasks :
          \E j \in DOMAIN Before : j.id = r.job_id /\ j.hour # r.hour

\* An add-task call that finds its job id live.
SecondAdd ==
    /\ reply' # reply
    /\ reply'.op = "add"
    /\ \E j \in DOMAIN live : j.id = reply'.job_id

\* C8 as claimed: the second add-task call for a triple replaces the first,
\* that is, it schedules the job again and answers that the task is scheduled.
C8_SecondAddReplaces == [][SecondAdd => reply'.text = "scheduled"]_vars

\* C8 amended: the second add-task call for a triple is refused with "A task
\* for this asset and time already exists" and changes neither the table nor
\* the schedule, which hold one row and one live job of that id.
C8_SecondAddRefused ==
    [][SecondAdd =>
          /\ reply'.text = "exists"
          /\ tasks' = tasks
          /\ live' = live
          /\ LiveWithId(live', reply'.job_id) = 1
          /\ BagCardinality([r \in {x \in DOMAIN tasks' : x.job_id = reply'.job_id}
                                |-> tasks'[r]]) = 1]_vars

\* The second call for XAUUSD at 08:30 has been answered.
C8_Witness ==
    /\ reply = Answer("add", "task_XAUUSD_8_30", "exists")
    /\ LiveWithId(live, "task_XAUUSD_8_30") = 1
    /\ \E r \in DOMAIN tasks : r.job_id = "task_XAUUSD_8_30" /\ r.hour = 8 /\ r.minute = 30

\* C9: setup_scheduler called on an empty schedule leaves exactly the jobs of
\* the persisted rows and the two built-in jobs, each once; called again, it
\* changes nothing.
C9_ReconcileIdempotent ==
    /\ (Len(setup_calls) = 1 /\ setup_calls[1] = EmptyBag) =>
            live = SetToBag(PersistedJobs \cup BuiltinJobs)
    /\ Len(setup_calls) >= 2 => live = Before

\* Two calls, the first on an empty schedule with rows in the table.
C9_Witness ==
    /\ Len(setup_calls) = 2
    /\ setup_calls[1] = EmptyBag
    /\ tasks # EmptyBag
    /\ live = setup_calls[2]

\* The jobs setup_scheduler found that are neither persisted nor built in.
StaleBefore ==
    {j \in DOMAIN Before :
        /\ ~\E r \in DOMAIN tasks : r.job_id = j.id
        /\ ~\E b \in BuiltinJobs : b.id = j.id}

\* C10 as claimed: after setup_scheduler the live analysis jobs are exactly
\* the persisted ones, stale ones removed.
C10_LiveEqualsPersisted ==
    Len(setup_calls) >= 1 =>
        {j \in DOMAIN live : j.func = "scheduled_analysis_job"} = PersistedJobs

\* C10 amended: after setup_scheduler every persisted job and both built-in
\* jobs are live, each once and with its own parameters, and the jobs it
\* found under other ids are still live, unchanged.
C10_AddsMissingKeepsStale ==
    Len(setup_calls) >= 1 =>
        live = SetToBag(PersistedJobs \cup BuiltinJobs \cup StaleBefore)

\* setup_scheduler has run on a schedule that held a job without a row and
\* lacked a job with a row.
C10_Witness ==
    /\ Len(setup_calls) = 1
    /\ StaleBefore # {}
    /\ \E r \in DOMAIN tasks : ~\E j \in DOMAIN Before : j.id = r.job_id

(***************************************************************************)
(* Properties of the fan-outs and of the jobs that use them                *)
(***************************************************************************)
\* The last run sent its message to a list of recipients.
FannedOut == run.message.kind # "none"

\* N and k of the last fan-out.
FanoutN == Cardinality(run.recipients)
FanoutK == Cardinality(run.recipients \ run.delivered)

C19_ProviderFailureReported ==
    (run.job = "analysis" /\ run.cause \in {"candles_failed", "ai_failed"}) =>
        /\ run.calls.candles <= 1
        /\ run.calls.ai <= 1
        /\ run.message.kind # "analysis"
        /\ run.attempted = {}
        /\ run.notified = ADMIN_IDS
        /\ \A i \in DOMAIN run.notices : run.notices[i].text = "analysis_failed"
        /\ run.outcome = "returned"

\* The last run is a digest or analysis job that failed: its scrape or its
\* provider failed, or no recipient of its fan-out got the message.
JobFailed ==
    /\ run.job \in {"digest", "analysis"}
    /\ \/ run.cause \in {"scrape_failed", "candles_failed", "ai_failed"}
       \/ (FannedOut /\ FanoutN > 0 /\ run.delivered = {})

\* C20: the admins are sent a failure summary whenever a digest or analysis
\* job failed, and never more than one message each for a run, whatever the
\* number of failed recipients.
C20_OperatorsGetFailureSummary ==
    /\ JobFailed =>
          /\ run.notified = ADMIN_IDS
          /\ \A i \in DOMAIN run.notices :
                run.notices[i].text \in {"analysis_failed", "digest_failed"}
    /\ Len(run.notified) <= Len(ADMIN_IDS)

(***************************************************************************)
(* Properties of the admin task handlers                                   *)
(***************************************************************************)
\* The (asset, hour, minute, job_id) of the adds in flight or finished and
\* of the rows of the table.
AddRequests ==
    {[asset |-> ops[s].asset, hour |-> ops[s].hour, minute |-> ops[s].minute,
      job_id |-> ops[s].job_id] : s \in {x \in Slots : ops[x].op = "add"}}
    \cup {[asset |-> r.asset, hour |-> r.hour, minute |-> r.minute,
           job_id |-> r.job_id] : r \in DOMAIN tasks}

RowsWithId(job_id) == LET Same(r) == r.job_id = job_id IN CountWhere(tasks, Same)

\* C12: two adds get the same job id exactly when they are for the same
\* (asset, hour, minute), and the table never holds two rows with the same
\* job_id, whatever the interleaving of the handlers.
C12_JobIdUniqueAndDeterministic ==
    /\ \A q1, q2 \in AddRequests :
          (q1.job_id = q2.job_id) <=>
              (q1.asset = q2.asset /\ q1.hour = q2.hour /\ q1.minute = q2.minute)
    /\ \A r \in DOMAIN tasks : RowsWithId(r.job_id) = 1

\* Two rows of adds whose hour and minute read alike, 1:12 and 11:02, and an
\* add for one of them again that the unique job_id refused.
C12_Witness ==
    /\ \E r1, r2 \in DOMAIN tasks :
          /\ r1.hour = 1 /\ r1.minute = 12
          /\ r2.hour = 11 /\ r2.minute = 2
    /\ \E s \in Slots : ops[s].result = "error" /\ ops[s].hour = 11

\* C13: when a remove-task operation completes its job id is neither in the
\* table nor in the live schedule.
C13_RemovedEverywhereStep ==
    \A s \in Slots :
        (ops[s].pc = "answer" /\ ops'[s].pc = "done") =>
            /\ RowsWithId(ops[s].job_id)' = 0
            /\ LiveWithId(live', ops[s].job_id) = 0

C13_RemovedEverywhere == [][C13_RemovedEverywhereStep]_vars

\* C14: once on_startup has run, and with the admin operations running one
\* after the other, the live analysis jobs are the jobs of the rows: one
\* live job per row, with the row's job_id, asset, hour and minute, and no
\* other.
C14_LiveMatchesPersisted ==
    started =>
        /\ {j \in DOMAIN live : j.func = "scheduled_analysis_job"} = PersistedJobs
        /\ \A j \in DOMAIN live : live[j] = 1
        /\ \A r \in DOMAIN tasks : tasks[r] = 1

\* After startup and adds, a remove has left two tasks, live and persisted.
C14_Witness ==
    /\ started
    /\ reply.op = "remove"
    /\ BagCardinality(tasks) = 2
    /\ \E j \in DOMAIN live : j.id = "task_XAUUSD_8_30"

\* C15: when two admin operations on the same job id have both finished, the
\* id is at most once in the table and in the live schedule, and in both or
\* in neither.
C15_ConcurrentOpsAgree ==
    (/\ \A s \in Slots : ops[s].op # "none" /\ ops[s].pc = "done"
     /\ ops[1].job_id = ops[2].job_id) =>
        /\ RowsWithId(ops[1].job_id) <= 1
        /\ LiveWithId(live, ops[1].job_id) <= 1
        /\ RowsWithId(ops[1].job_id) = LiveWithId(live, ops[1].job_id)

\* C16: every live analysis job runs in the timezone of its row, and the
\* daily calendar job at 02:00 Asia/Baghdad.
C16_JobsInConfiguredTimezone ==
    \A j \in DOMAIN live :
        /\ j.func = "scheduled_analysis_job" =>
              \A r \in DOMAIN tasks : r.job_id = j.id => j.timezone = r.timezone
        /\ j.id = "daily_calendar_sender" =>
              (j.timezone = "Asia/Baghdad" /\ j.hour = 2 /\ j.minute = 0)

(***************************************************************************)
(* Properties of the alert menus                                           *)
(***************************************************************************)
\* C17: an alert is deleted only by a delete action of its owner.
C17_DeletedOnlyByOwner == \A d \in deletions : d.by = d.owner

(***************************************************************************)
(* Properties of the end of the evaluator tick                             *)
(***************************************************************************)
\* The step in which check_price_alerts_job returns after its sweep.
TickEnds == pc = "flush" /\ pc' = "idle"

\* The rows of the table that are the alert of this snapshot entry.
RowsOf(rows, a) == {r \in rows : r.uid = a.uid}

\* C25: when a tick ends whose batched update did not fail, every one-time
\* alert that triggered in the tick is deactivated: is_active false and
\* triggered_at set.
C25_TriggeredOneTimeDeactivatedStep ==
    (TickEnds /\ flush' # "failed") =>
        \A a \in Passed :
            (a.is_one_time /\ a.uid \in triggered) =>
                \A r \in RowsOf(alerts', a) :
                    ~r.is_active /\ r.triggered_at = Now

C25_TriggeredOneTimeDeactivated == [][C25_TriggeredOneTimeDeactivatedStep]_vars

\* A step of check_price_alerts_job: the handlers leave its locals alone.
TickStep == tickVars' # tickVars

\* The one-time alerts of the snapshot that triggered in this tick.
TriggeredOneTime == {a \in Passed : a.is_one_time /\ a.uid \in triggered}

\* C26: a step of the tick creates and deletes no row, and changes a row only
\* by deactivating a one-time alert that triggered in this tick.
C26_TickChangesOnlyTriggeredStep ==
    TickStep =>
        /\ {r.uid : r \in alerts'} = {r.uid : r \in alerts}
        /\ \A r \in alerts :
              \/ r \in alerts'
              \/ /\ DeactivatedValues(r) \in alerts'
                 /\ \E a \in TriggeredOneTime : a.uid = r.uid

C26_TickChangesOnlyTriggered == [][C26_TickChangesOnlyTriggeredStep]_vars

(***************************************************************************)
(* Properties of the failures inside a tick                                *)
(***************************************************************************)
\* The alerts of the snapshot whose asset got no price in this tick.
Unpriced == {a \in Passed : ~HasPrice(asset_prices, a.asset)}

\* C27, during the tick: an alert whose asset has no price is neither
\* evaluated, nor triggered, nor queued for deactivation, while every alert
\* whose asset has a price is evaluated and triggers when its threshold holds.
C27_FailedAssetSkipped ==
    InTick =>
        \A a \in Passed :
            IF HasPrice(asset_prices, a.asset)
            THEN /\ a.uid \in SeqToSet(evaluated)
                 /\ ThresholdHolds(a.alert_type, asset_prices[a.asset], a.target_price)
                        => a.uid \in triggered
            ELSE /\ a.uid \notin SeqToSet(evaluated)
                 /\ a.uid \notin triggered
                 /\ a.id \notin SeqToSet(triggered_one_time_ids)

\* C27, across ticks: the end of the tick leaves the row of a skipped alert
\* as it is, active; and a tick that starts asks for the price of every active
\* alert's asset and, when it loads the alerts, loads every active one.
C27_SkippedOnlyThisTickStep ==
    /\ TickEnds =>
          \A a \in Unpriced : \A r \in RowsOf(alerts, a) : r \in alerts' /\ r.is_active
    /\ (pc = "idle" /\ TickStep) =>
          \A r \in alerts : r.is_active => r.asset \in active_assets'
    /\ (pc = "load" /\ pc' = "sweep") =>
          \A r \in alerts : r.is_active => r \in SeqToSet(active_alerts')

C27_FailedFetchIsolated ==
    [](C27_FailedAssetSkipped) /\ [][C27_SkippedOnlyThisTickStep]_vars

\* The sweep is over: the alert of an asset whose fetch failed was skipped,
\* and an alert that comes after it in the snapshot, of an asset whose fetch
\* returned a price, has triggered.
C27_Witness ==
    /\ pc = "flush"
    /\ \E i, j \in DOMAIN active_alerts :
          /\ i < j
          /\ active_alerts[i] \in Unpriced
          /\ HasPrice(asset_prices, active_alerts[j].asset)
          /\ active_alerts[j].uid \in triggered
          /\ active_alerts[i] \in alerts

\* C28, during the tick: every alert the loop has passed whose asset has a
\* price and whose threshold holds was fired, its send returning or raising,
\* whatever the sends before it did; and a send that raised is recorded.
C28_SweepGoesOn ==
    InTick =>
        /\ \A a \in Passed :
              (HasPrice(asset_prices, a.asset)
                  /\ ThresholdHolds(a.alert_type, asset_prices[a.asset], a.target_price))
              => a.uid \in SentUids \cup send_failures
        /\ send_failures \subseteq triggered
        /\ send_failures \cap SentUids = {}

\* C28, the rows: no step of the sweep writes to the table, and the end of
\* the tick leaves the row of an alert whose send raised as it is.
C28_FailureWritesNothingStep ==
    /\ (pc = "sweep" /\ TickStep) => alerts' = alerts
    /\ TickEnds =>
          \A a \in Passed :
              a.uid \in send_failures => \A r \in RowsOf(alerts, a) : r \in alerts'

Queued == {a \in Passed : a.id \in SeqToSet(triggered_one_time_ids)}

\* C29: a batched update that fails changes no row, so that every queued
\* alert still in the table is active, and leaves the stored tasks and the
\* live schedule alone; and a tick that loads the alerts loads every active
\* one, the alerts of a failed update included.
C29_FailedWriteStep ==
    /\ (pc = "flush" /\ flush' = "failed") =>
          /\ alerts' = alerts
          /\ \A a \in Queued : \A r \in RowsOf(alerts', a) : r.is_active
          /\ live' = live
          /\ tasks' = tasks
    /\ (pc = "load" /\ pc' = "sweep") =>
          active_alerts' = get_all_active_price_alerts(alerts)

C29_FailedWriteAppliesNothing == [][C29_FailedWriteStep]_vars

\* The last batched update failed, and two one-time alerts that triggered
\* are in the table, both active.
C29_Witness ==
    /\ flush = "failed"
    /\ pc = "idle"
    /\ \E r, q \in alerts :
          /\ r.uid # q.uid
          /\ r.is_one_time /\ q.is_one_time
          /\ r.is_active /\ q.is_active
          /\ {r.uid, q.uid} \subseteq triggered_before

(***************************************************************************)
(* Properties of the live schedule while the admin handlers run            *)
(***************************************************************************)
\* C30: in every state, the states in the middle of an add or a remove
\* included, every live analysis job has a row in scheduled_tasks.
C30_NoJobOnlyInMemory ==
    \A j \in DOMAIN live :
        j.func = "scheduled_analysis_job" => RowsWithId(j.id) >= 1

(***************************************************************************)
(* Properties of the calendar scrape and of the calendar texts             *)
(***************************************************************************)
\* A scrape has returned the events of the page.
Scraped == calpc # "idle" /\ page_response = "ok"

\* The texts have been given to the transport.
Rendered == calpc \in {"job_done", "handler_done"}

\* The row indices of the events written into the texts, in order.
RECURSIVE RowsIn(_)
RowsIn(texts) ==
    IF texts = <<>> THEN <<>> ELSE Head(texts).rows \o RowsIn(Tail(texts))

\* C21: every calendar text given to the transport, by the digest job and by
\* the calendar handler, has at most 4096 characters, and the events of the
\* scrape are in the texts in their order, each in exactly one text.
C21_ChunksWithinLimit ==
    Rendered =>
        /\ \A k \in DOMAIN outbox : outbox[k].len <= TransportLimit
        /\ RowsIn(outbox) = [k \in DOMAIN calendar_events |-> calendar_events[k].row]

\* The date of a row as the scraper normalizes it: the date text read in the
\* current year of Baghdad.
RowDate(row) == <<today[1], MonthOf(row.date_str.mon), row.date_str.day>>

\* The time text is in the 12-hour format, or in the 24-hour format.
IsTwelveHour(time) ==
    /\ time.ampm \in {"AM", "PM", "am", "pm"}
    /\ time.hh \in 1..12 /\ time.mm \in 0..59

IsTwentyFourHour(time) == time.ampm = "" /\ time.hh \in 0..23 /\ time.mm \in 0..59

\* The date text of the row can be read: a month and a day of that month,
\* and no time or a time in one of the two formats.
DateReadable(row) ==
    /\ row.date_str.mon \in {"Jan", "Dec"}
    /\ row.date_str.day \in 1..31
    /\ ~row.date_str.time.given
          \/ IsTwelveHour(row.date_str.time) \/ IsTwentyFourHour(row.date_str.time)

\* The row has everything an event is made of.
Parseable(row) ==
    /\ row.date_div
    /\ row.tds >= 6
    /\ row.cells # "missing"
    /\ DateReadable(row)

EventsOfRow(i) == {k \in DOMAIN calendar_events : calendar_events[k].row = i}

C23_SortedByTimestamp ==
    Scraped =>
        \A k, l \in DOMAIN calendar_events :
            k < l => Key(calendar_events[k].datetime_obj)
                        <= Key(calendar_events[l].datetime_obj)

\* Three events whose rows were on the page in descending order of time.
C23_Witness ==
    /\ Scraped
    /\ Len(calendar_events) = 3
    /\ calendar_events[1].row = 3 /\ calendar_events[2].row = 2
    /\ calendar_events[3].row = 1
    /\ Key(calendar_events[1].datetime_obj) < Key(calendar_events[2].datetime_obj)
    /\ Key(calendar_events[2].datetime_obj) < Key(calendar_events[3].datetime_obj)

\* The 24-hour text of the same time of day as a 12-hour text.
SameTimeOfDay(t12, t24) ==
    /\ IsTwelveHour(t12)
    /\ IsTwentyFourHour(t24)
    /\ t24.mm = t12.mm
    /\ t24.hh = (t12.hh % 12) + (IF t12.ampm \in {"PM", "pm"} THEN 12 ELSE 0)

\* C24: two rows of the page with the same day, one with a 12-hour time and
\* one with the 24-hour text of the same time, normalize to the same instant;
\* and a row whose date text cannot be read has no event in the output.
C24_BothTimeFormats ==
    Scraped =>
        /\ \A i, j \in DOMAIN calendar_rows :
              LET a == calendar_rows[i].date_str
                  b == calendar_rows[j].date_str
              IN (/\ DateReadable(calendar_rows[i])
                  /\ a.mon = b.mon /\ a.day = b.day
                  /\ a.time.given /\ b.time.given
                  /\ SameTimeOfDay(a.time, b.time))
                 => /\ parse_event_datetime(a, today) = parse_event_datetime(b, today)
                    /\ parse_event_datetime(a, today) # NoDatetime
                    /\ parse_event_datetime(a, today).hour = b.time.hh
                    /\ parse_event_datetime(a, today).minute = b.time.mm
        /\ \A i \in DOMAIN calendar_rows :
              ~DateReadable(calendar_rows[i]) => EventsOfRow(i) = {}

\* The rows "Jan 5, 2:30PM" and "Jan 5, 14:30" gave two events at 14:30 of
\* January 5, and a third row, whose date text cannot be read, gave none.
C24_Witness ==
    /\ Scraped
    /\ Len(calendar_rows) = 3
    /\ Len(calendar_events) = 2
    /\ calendar_events[1].datetime_obj = calendar_events[2].datetime_obj
    /\ calendar_events[1].datetime_obj = Datetime(2026, 1, 5, 14, 30)
    /\ \E i, j, k \in DOMAIN calendar_rows :
          /\ calendar_rows[i].date_str = DateStr("Jan", 5, Time(2, 30, "PM"))
          /\ calendar_rows[j].date_str = DateStr("Jan", 5, Time(14, 30, ""))
          /\ EventsOfRow(i) # {} /\ EventsOfRow(j) # {}
          /\ ~DateReadable(calendar_rows[k])

\* The events without the positions of their rows on the page.
Unplaced(evs) == [k \in DOMAIN evs |-> [evs[k] EXCEPT !.row = 0]]

\* C31: the events of a scrape are the events of the scrape of the same page
\* without its malformed rows: the rows without the date div, with fewer than
\* six cells, with a missing data cell or with a date text that cannot be read.
C31_MalformedRowsIgnored ==
    Scraped =>
        Unplaced(calendar_events)
            = Unplaced(ScrapeCalendar("ok", SelectSeq(calendar_rows, Parseable), today))

\* A row whose data cell is missing, which raises in the loop body, stands
\* before a row whose event the scrape returned.
C31_Witness ==
    /\ Scraped
    /\ \E i, j \in DOMAIN calendar_rows :
          /\ i < j
          /\ calendar_rows[i].cells = "missing"
          /\ calendar_rows[i].date_div /\ calendar_rows[i].tds >= 6
          /\ EventsOfRow(i) = {}
          /\ EventsOfRow(j) # {}

(***************************************************************************)
(* Properties of the prices a tick uses                                    *)
(***************************************************************************)
\* C35: in a step of the tick, a notification that is sent is that of an
\* alert of the snapshot whose asset has a price of this tick, carries that
\* price, and the threshold of the alert holds at it; a row the step changes
\* is the row of an alert whose asset has a price of this tick; and a call
\* that finds no active alert, or gets no price, ends with nothing sent and
\* nothing written.
C35_OwnPriceOfThisTickStep ==
    TickStep =>
        /\ Len(sent') > Len(sent) =>
              LET n == sent'[Len(sent')]
              IN \E a \in SeqToSet(active_alerts) :
                    /\ a.uid = n.uid
                    /\ HasPrice(asset_prices, a.asset)
                    /\ n.price = asset_prices[a.asset]
                    /\ ThresholdHolds(a.alert_type, n.price, a.target_price)
        /\ \A r \in alerts : r \notin alerts' => HasPrice(asset_prices, r.asset)
        /\ (pc = "idle" /\ active_assets' = {}) =>
              pc' = "idle" /\ alerts' = alerts /\ sent' = <<>>
        /\ (pc = "fetch" /\ asset_prices' = <<>>) =>
              pc' = "idle" /\ alerts' = alerts /\ sent' = <<>>

C35_OwnPriceOfThisTick == [][C35_OwnPriceOfThisTickStep]_vars

(***************************************************************************)
(* Properties of the calls that get no answer                              *)
(***************************************************************************)
\* The fetch of some active asset gave no price in this tick.
SomeFetchFailed == active_assets \ DOMAIN asset_prices # {}

\* The loop is over and has evaluated every alert of the snapshot whose asset
\* has a price.
OthersEvaluated ==
    /\ pc = "flush"
    /\ \A a \in SeqToSet(active_alerts) :
          HasPrice(asset_prices, a.asset) => a.uid \in SeqToSet(evaluated)

IsFree(user_id) == get_user(users, user_id).subscription_tier = "free"

IsFreeNonVip(user_id) == IsFree(user_id) /\ ~get_user(users, user_id).is_vip

\* The conversation holds a price: it waits for the direction or the
\* frequency.
HoldsPrice(user_id) == fsm[user_id].state \in {"set_alert_type", "set_alert_frequency"}

\* C33, the rows and the conversation: every row has a positive target and
\* a direction above or below; a conversation that has taken a price holds
\* no price that is zero or negative, and one that waits for the frequency,
\* the step that calls DB.add_price_alert, holds a direction above or below.
C33_ValidAlertState ==
    /\ \A r \in alerts : r.target_price > 0 /\ r.alert_type \in {ABOVE, BELOW}
    /\ \A user_id \in Users :
          /\ HoldsPrice(user_id) =>
                ~(~fsm[user_id].target_price.nan /\ fsm[user_id].target_price.v <= 0)
          /\ fsm[user_id].state = "set_alert_frequency" =>
                fsm[user_id].alert_type \in {ABOVE, BELOW}

\* C33, the creation: a row that a step adds is active, has triggered_at
\* unset, and carries the price and the direction of the conversation.
C33_CreatedActiveStep ==
    \A r \in alerts' \ alerts :
        /\ r.is_active /\ r.triggered_at = None
        /\ r.target_price = fsm[r.user_id].target_price.v
        /\ ~fsm[r.user_id].target_price.nan
        /\ r.alert_type = fsm[r.user_id].alert_type

\* C33: every persisted alert has target_price > 0 and a direction above or
\* below and is created active with triggered_at unset, and the conversation
\* never reaches DB.add_price_alert with a non-positive price or another
\* direction.
C33_AlertsAreValid == [](C33_ValidAlertState) /\ [][C33_CreatedActiveStep]_vars

\* An alert above and an alert below were created, and a conversation in
\* which the user typed "nan" has reached the frequency step, where the
\* insert raises.
C33_Witness ==
    /\ \E r1, r2 \in alerts : r1.alert_type = ABOVE /\ r2.alert_type = BELOW
    /\ fsm[101].state = "set_alert_frequency"
    /\ fsm[101].target_price.nan

\* C36: a user on the free plan has at most 3 active alerts.
C36_FreePlanLimit ==
    \A user_id \in Users :
        IsFree(user_id) =>
            Cardinality(get_active_user_price_alerts(alerts, user_id)) <= FreeAlertLimit

\* C37: every alert of a free user who is not VIP is on an asset of the
\* asset keyboard.
C37_NoCustomAssetForFree ==
    \A user_id \in Users :
        IsFreeNonVip(user_id) =>
            \A r \in alerts : r.user_id = user_id => r.asset \in AlertKeyboardAssets

IsAnalysisJob(j) == j.func = "scheduled_analysis_job"

C34_ValidTimeState ==
    /\ \A r \in DOMAIN tasks : r.hour \in 0..23 /\ r.minute \in 0..59
    /\ \A j \in DOMAIN live : IsAnalysisJob(j) => j.hour \in 0..23 /\ j.minute \in 0..59
    /\ fsm[TaskAdmin].state \in {"add_task_hour", "add_task_minute"}
          => fsm[TaskAdmin].asset \in Assets
    /\ fsm[TaskAdmin].state = "add_task_minute" => fsm[TaskAdmin].hour \in 0..23

C34_ConversationStep ==
    /\ (reply' # reply /\ reply'.text = "invalid")
          => UNCHANGED <<fsm, tasks, live>>
    /\ \A r \in DOMAIN tasks' :
          r \notin DOMAIN tasks
             => /\ fsm[TaskAdmin].state = "add_task_minute"
                /\ r.asset = fsm[TaskAdmin].asset
                /\ r.hour = fsm[TaskAdmin].hour
                /\ r.job_id = JobId(r.asset, r.hour, r.minute)
                /\ get_job(live', r.job_id)

\* C34: every row of scheduled_tasks and every live analysis job has its hour
\* in 0..23 and its minute in 0..59; an hour or minute answered as invalid
\* leaves the conversation in its step and stores nothing; the minute step is
\* reached only with an asset and an accepted hour, and a row is stored only
\* from the minute step, with the asset and the hour of the conversation, and
\* together with its live job.
C34_TaskTimesInRange == [](C34_ValidTimeState) /\ [][C34_ConversationStep]_vars

C34_Witness ==
    /\ \E r \in DOMAIN tasks :
          /\ r.hour = 23 /\ r.minute = 59
          /\ \E j \in DOMAIN live : IsAnalysisJob(j) /\ j.id = r.job_id
    /\ fsm[TaskAdmin].state = "add_task_minute"
    /\ reply = Answer("minute", None, "invalid")

\* C38: the credits of a user on the free plan who is not VIP are never below
\* zero, whatever the interleaving of that user's analyze callbacks.
C38_CreditsNeverNegative ==
    \A u \in users : (u.subscription_tier = "free" /\ ~u.is_vip) => u.credits >= 0

====
